---- MODULE Spec2Model ----
(***************************************************************************)
(* Model of clusterfuzz/_internal/google_cloud_utils/storage.py: the       *)
(* storage providers (GcsProvider, FileSystemProvider), the retry-wrapped  *)
(* public storage functions and the signed-URL helpers.                    *)
(*                                                                         *)
(* Strings that the code parses (logical paths, file-system paths) are     *)
(* sequences of one-character strings; byte strings are sequences of       *)
(* numbers below 256; text is a sequence of code points.                   *)
(***************************************************************************)
EXTENDS Integers, Sequences, FiniteSets, TLC

VARIABLES
  env,        \* value of LOCAL_GCS_BUCKETS_PATH ("" when unset)
  fsDirs,     \* local disk: the directories that exist
  fsFiles,    \* local disk: regular file path -> content
  gcsBuckets, \* remote store: the buckets that exist
  gcsBlobs,   \* remote store: <<bucket, name>> -> [data, metadata]
  signed,     \* the capability URL issued last (NoUrl before the first)
  last,       \* the last public storage call and its outcome
  written,    \* per backend and logical path: the bytes the callers stored
  pool,       \* the batch in progress: its items, who ran, what came back
  local,      \* threading.local(): per thread the attributes set, and the
              \* instances constructed so far
  probe,      \* a path function applied to an input, and what it gave
  paging,     \* the loop of GcsProvider.list_blobs, and the service it asks
  iam,        \* the bucket's IAM policy at the service, and each mutator's copy
  info,     \* the GcsBlobInfo handle a caller holds, and what key() answered
  web       \* the web application: CSRF tokens stored, the request served last, events emitted

vars == <<env, fsDirs, fsFiles, gcsBuckets, gcsBlobs, signed, last, written,
          pool, local, probe, paging, iam, info, web>>

(***************************************************************************)
(* Program constants.                                                      *)
(***************************************************************************)
DEFAULT_FAIL_RETRIES == 8

DEFAULT_FAIL_WAIT == 2

SIGNED_URL_EXPIRATION_MINUTES == 1440

GS_PREFIX == <<"g", "s", ":", "/">>

OBJECTS_DIR == <<"o", "b", "j", "e", "c", "t", "s">>

METADATA_DIR == <<"m", "e", "t", "a", "d", "a", "t", "a">>

\* _TRANSIENT_ERRORS
TRANSIENT_ERRORS ==
  { "GoogleCloudError", "ConnectionError", "requests.ConnectionError",
    "requests.ChunkedEncodingError", "requests.ReadTimeout",
    "ConnectionResetError", "TransportError", "OpenSSL.SSL.Error" }

(***************************************************************************)
(* Exceptions.  An exception is a record [type, code]; isinstance follows  *)
(* the class hierarchy of the libraries the code imports.                  *)
(***************************************************************************)
NoUrl == [method |-> "none", path |-> <<>>, minutes |-> 0]

\* a response body: whether ElementTree parses it, and the <tag, text> children
\* of its root element
NoBody == [xml |-> FALSE, children |-> <<>>]

NoError == [type |-> "none", code |-> 0, url |-> NoUrl, body |-> NoBody]

Raise(type, code) == [type |-> type, code |-> code, url |-> NoUrl, body |-> NoBody]

\* the classes an exception of the given type is an instance of
Bases(type) ==
  CASE type = "NotFound" -> {"NotFound", "GoogleCloudError", "Exception"}
    [] type = "InternalServerError" ->
         {"InternalServerError", "GoogleCloudError", "Exception"}
    [] type = "GoogleCloudError" -> {"GoogleCloudError", "Exception"}
    [] type = "HttpError" -> {"HttpError", "Exception"}
    [] type = "ConnectionError" -> {"ConnectionError", "OSError", "Exception"}
    [] type = "requests.ConnectionError" ->
         {"requests.ConnectionError", "requests.RequestException", "OSError",
          "Exception"}
    [] type = "requests.HTTPError" ->
         {"requests.HTTPError", "requests.RequestException", "OSError",
          "Exception"}
    [] type = "ExpiredSignedUrlError" ->
         {"ExpiredSignedUrlError", "errors.Error", "Exception"}
    [] type = "RuntimeError" -> {"RuntimeError", "Exception"}
    [] type = "ValueError" -> {"ValueError", "Exception"}
    [] type = "FileNotFoundError" -> {"FileNotFoundError", "OSError", "Exception"}
    [] OTHER -> {type, "Exception"}

isinstance(e, type) == type \in Bases(e.type)

(***************************************************************************)
(* Path codec.                                                             *)
(***************************************************************************)
startswith(s, prefix) ==
  /\ Len(s) >= Len(prefix)
  /\ SubSeq(s, 1, Len(prefix)) = prefix

\* utils.strip_from_left
strip_from_left(s, prefix) ==
  IF startswith(s, prefix) THEN SubSeq(s, Len(prefix) + 1, Len(s)) ELSE s

HasSlash(s) == \E i \in 1..Len(s) : s[i] = "/"

FirstSlash(s) == CHOOSE i \in 1..Len(s) : s[i] = "/" /\ \A j \in 1..(i - 1) : s[j] # "/"

LastSlash(s) == CHOOSE i \in 1..Len(s) : s[i] = "/" /\ \A j \in (i + 1)..Len(s) : s[j] # "/"

\* str.split('/', 1): the text before and after the first slash
split1(s) ==
  LET Cut(i) == <<SubSeq(s, 1, i - 1), SubSeq(s, i + 1, Len(s))>>
  IN IF HasSlash(s) THEN Cut(FirstSlash(s)) ELSE <<s>>

\* get_bucket_name_and_path: [raised, bucket, path]; the unpacking of a
\* split that has no second part raises ValueError
get_bucket_name_and_path(cloud_storage_file_path) ==
  LET Both(inner) == [raised |-> NoError, bucket |-> inner[1], path |-> inner[2]]
      Rest(bucket_name_and_path) ==
        IF HasSlash(bucket_name_and_path) THEN Both(split1(bucket_name_and_path))
        ELSE [raised |-> NoError, bucket |-> bucket_name_and_path, path |-> <<>>]
      Parts(parts) ==
        IF Len(parts) # 2
          THEN [raised |-> Raise("ValueError", 0), bucket |-> <<>>, path |-> <<>>]
          ELSE Rest(parts[2])
  IN Parts(split1(strip_from_left(cloud_storage_file_path, GS_PREFIX)))

\* a path built without the slash that follows the prefix
build_without_slash(bucket, path) == GS_PREFIX \o bucket \o <<"/">> \o path

get_cloud_storage_file_path(bucket, path) ==
  GS_PREFIX \o <<"/">> \o bucket \o <<"/">> \o path

(***************************************************************************)
(* Data: what callers hand to the writing functions, and its encoding.     *)
(***************************************************************************)
RECURSIVE encode(_)
\* str.encode(): UTF-8 of a text (code points below 2048)
encode(text) ==
  LET EncodeChar(c) ==
        IF c < 128 THEN <<c>> ELSE <<192 + (c \div 64), 128 + (c % 64)>>
  IN IF text = <<>> THEN <<>> ELSE EncodeChar(Head(text)) \o encode(Tail(text))

\* file.read() / shutil.copyfileobj: the bytes from the handle's position on
ReadFileObj(f) == SubSeq(f.val, f.pos + 1, Len(f.val))

(***************************************************************************)
(* Values returned by the storage functions.  Every value has the same     *)
(* fields, so that any two of them can be compared.                        *)
(***************************************************************************)
NoMetadata == <<>>

NoObject == [bucket |-> <<>>, name |-> <<>>, fields |-> {}, size |-> 0,
             metadata |-> NoMetadata]

Value(kind, flag, bytes, obj, url) ==
  [kind |-> kind, flag |-> flag, bytes |-> bytes, obj |-> obj, url |-> url,
   items |-> <<>>, records |-> <<>>]

\* Python's None: the not-found sentinel, also the value of a bare return
None == Value("None", FALSE, <<>>, NoObject, NoUrl)

Bool(b) == Value("bool", b, <<>>, NoObject, NoUrl)

Bytes(b) == Value("bytes", FALSE, b, NoObject, NoUrl)

Object(o) == Value("object", FALSE, <<>>, o, NoUrl)

Url(u) == Value("url", FALSE, <<>>, NoObject, u)

\* what a listing yields, in the order it yields it: the records, and the
\* name in each
Listing(records) ==
  [None EXCEPT !.kind = "list",
               !.items = [i \in DOMAIN records |-> records[i].name],
               !.records = records]

\* blob['name'] of each record of a listing
Names(listing) == [listing EXCEPT !.records = <<>>]

\* the outcome of a listing that yields the name of each record
ListedNames(o) == [o EXCEPT !.value = IF o.raised = NoError THEN Names(@) ELSE @]

\* the elements of a set in the order a walk or a backend gives them
Ordered(S) ==
  CHOOSE names \in [1..Cardinality(S) -> S] : \A x \in S : \E i \in DOMAIN names : names[i] = x

\* what a provider method or a public function did: the store it leaves,
\* the exception it raised (NoError when it returned) and its return value
Outcome(st, raised, value) == [st |-> st, raised |-> raised, value |-> value]

\* the end of a method whose last statement w ran: what w raised, else True
ReturnTrue(w) ==
  IF w.raised # NoError THEN Outcome(w.st, w.raised, None)
  ELSE Outcome(w.st, NoError, Bool(TRUE))

(***************************************************************************)
(* Local disk, as os and shell see it.                                     *)
(***************************************************************************)
\* FileSystemProvider.filesystem_dir
FsRoot == <<"/", "r">>

\* os.path.join of two parts
join(a, b) ==
  IF b # <<>> /\ b[1] = "/" THEN b
  ELSE IF a = <<>> \/ a[Len(a)] = "/" THEN a \o b
  ELSE a \o <<"/">> \o b

\* os.path.dirname
dirname(p) ==
  LET UpTo(i) == IF i = 1 THEN <<"/">> ELSE SubSeq(p, 1, i - 1)
  IN IF ~HasSlash(p) THEN <<>> ELSE UpTo(LastSlash(p))

\* os.path.exists
exists_on_disk(st, p) == p \in st.dirs \/ p \in DOMAIN st.files

\* the directory itself and every directory above it, below "/"
WithParents(dir) ==
  {dir} \cup {SubSeq(dir, 1, i - 1) : i \in {j \in 2..Len(dir) : dir[j] = "/"}}

\* shell.create_directory(directory, create_intermediates=True)
create_directory(st, directory) ==
  IF exists_on_disk(st, directory) THEN st
  ELSE [st EXCEPT !.dirs = st.dirs \cup WithParents(directory)]

\* shell.remove_file: removes the file when it is there
remove_file(st, p) ==
  IF p \in DOMAIN st.files
    THEN [st EXCEPT !.files = [q \in (DOMAIN st.files) \ {p} |-> st.files[q]]]
    ELSE st

\* content of an object file / of a metadata sidecar (json.dump)
ObjectFile(bytes) == [bytes |-> bytes, json |-> NoMetadata]

JsonFile(metadata) == [bytes |-> <<>>, json |-> metadata]

\* open(path, 'wb') + write: [raised, st]
open_write(st, p, content) ==
  IF p \in st.dirs
    THEN [raised |-> Raise("IsADirectoryError", 0), st |-> st]
  ELSE IF dirname(p) \notin st.dirs
    THEN [raised |-> Raise("FileNotFoundError", 0), st |-> st]
  ELSE [raised |-> NoError,
        st |-> [st EXCEPT !.files =
                  [q \in (DOMAIN st.files) \cup {p} |->
                     IF q = p THEN content ELSE st.files[q]]]]

\* shell.copy_file: [ok, st]
copy_file(st, source, destination) ==
  LET Copied(w) == [ok |-> w.raised = NoError, st |-> w.st]
  IN IF source \notin DOMAIN st.files THEN [ok |-> FALSE, st |-> st]
     ELSE Copied(open_write(st, destination, st.files[source]))

(***************************************************************************)
(* FileSystemProvider.  A store st is [dirs, files, buckets, blobs]; the   *)
(* local provider reads and writes dirs and files only.                    *)
(***************************************************************************)
_fs_bucket_path(bucket) == join(FsRoot, bucket)

_fs_path(bucket, path, directory) ==
  join(join(_fs_bucket_path(bucket), directory), path)

\* FileSystemProvider.convert_path: [raised, fs_path]
convert_path(remote_path, directory) ==
  LET At(bp) == [raised |-> bp.raised,
                 fs_path |-> _fs_path(bp.bucket, bp.path, directory)]
  IN At(get_bucket_name_and_path(remote_path))

\* a conversion that does not look for the bucket directory
convert_path_for_write_unchecked(st, remote_path, directory) ==
  LET Made(fs_path) ==
        [raised |-> NoError, st |-> create_directory(st, dirname(fs_path)),
         fs_path |-> fs_path]
      In(bp) ==
        IF bp.raised # NoError
          THEN [raised |-> bp.raised, st |-> st, fs_path |-> <<>>]
          ELSE Made(_fs_path(bp.bucket, bp.path, directory))
  IN In(get_bucket_name_and_path(remote_path))

\* FileSystemProvider.convert_path_for_write: [raised, st, fs_path]
convert_path_for_write(st, remote_path, directory) ==
  LET Made(fs_path) ==
        [raised |-> NoError, st |-> create_directory(st, dirname(fs_path)),
         fs_path |-> fs_path]
      In(bp) ==
        IF bp.raised # NoError
          THEN [raised |-> bp.raised, st |-> st, fs_path |-> <<>>]
        ELSE IF ~exists_on_disk(st, _fs_bucket_path(bp.bucket))
          THEN [raised |-> Raise("RuntimeError", 0), st |-> st, fs_path |-> <<>>]
        ELSE Made(_fs_path(bp.bucket, bp.path, directory))
  IN In(get_bucket_name_and_path(remote_path))

\* FileSystemProvider._write_metadata: [raised, st]
_write_metadata(st, remote_path, metadata) ==
  LET To(c) == IF c.raised # NoError THEN [raised |-> c.raised, st |-> c.st]
               ELSE open_write(c.st, c.fs_path, JsonFile(metadata))
  IN IF metadata = NoMetadata THEN [raised |-> NoError, st |-> st]
     ELSE To(convert_path_for_write(st, remote_path, METADATA_DIR))

\* FileSystemProvider._get_metadata (json.load of the sidecar)
_get_metadata(st, bucket, path) ==
  LET Load(fs_metadata_path) ==
        IF fs_metadata_path \in DOMAIN st.files
          THEN st.files[fs_metadata_path].json
          ELSE NoMetadata
  IN Load(_fs_path(bucket, path, METADATA_DIR))

\* FileSystemProvider._get_object_properties
_get_object_properties(st, remote_path) ==
  LET Properties(bp, fs_path) ==
        IF fs_path \in st.dirs
          THEN [bucket |-> bp.bucket, name |-> bp.path,
                fields |-> {"bucket", "name"}, size |-> 0, metadata |-> NoMetadata]
          ELSE [bucket |-> bp.bucket, name |-> bp.path,
                fields |-> {"bucket", "name", "updated", "size", "metadata"},
                size |-> Len(st.files[fs_path].bytes),
                metadata |-> _get_metadata(st, bp.bucket, bp.path)]
  IN Properties(get_bucket_name_and_path(remote_path),
                convert_path(remote_path, OBJECTS_DIR).fs_path)

\* a write that stores text as its code points, without encoding it
fs_payload_unencoded(data) ==
  IF data.kind = "file" THEN ReadFileObj(data) ELSE data.val

\* the bytes a local write stores for data_or_fileobj
fs_payload(data) ==
  IF data.kind = "str" THEN encode(data.val)
  ELSE IF data.kind = "bytes" THEN data.val
  ELSE ReadFileObj(data)

\* write the object file, then the metadata sidecar
fs_store(st, remote_path, bytes, metadata) ==
  LET Opened(w) ==
        IF w.raised # NoError THEN Outcome(w.st, w.raised, None)
        ELSE ReturnTrue(_write_metadata(w.st, remote_path, metadata))
      To(c) ==
        IF c.raised # NoError THEN Outcome(c.st, c.raised, None)
        ELSE Opened(open_write(c.st, c.fs_path, ObjectFile(bytes)))
  IN To(convert_path_for_write(st, remote_path, OBJECTS_DIR))

\* FileSystemProvider.write_data
fs_write_data(st, data, remote_path, metadata) ==
  fs_store(st, remote_path, fs_payload(data), metadata)

RECURSIVE stream_bytes(_)
\* the chunks of a stream, each encoded when it is text, one after the other
stream_bytes(stream) ==
  IF stream = <<>> THEN <<>>
  ELSE (IF Head(stream).kind = "str" THEN encode(Head(stream).val)
        ELSE Head(stream).val) \o stream_bytes(Tail(stream))

\* FileSystemProvider.write_stream
fs_write_stream(st, stream, remote_path, metadata) ==
  fs_store(st, remote_path, stream_bytes(stream), metadata)

\* FileSystemProvider.read_data
fs_read_data(st, remote_path) ==
  LET At(c) ==
        IF c.raised # NoError THEN Outcome(st, c.raised, None)
        ELSE IF ~exists_on_disk(st, c.fs_path) THEN Outcome(st, NoError, None)
        ELSE IF c.fs_path \in st.dirs
          THEN Outcome(st, Raise("IsADirectoryError", 0), None)
        ELSE Outcome(st, NoError, Bytes(st.files[c.fs_path].bytes))
  IN At(convert_path(remote_path, OBJECTS_DIR))

\* FileSystemProvider.get
fs_get(st, remote_path) ==
  LET At(c) ==
        IF c.raised # NoError THEN Outcome(st, c.raised, None)
        ELSE IF ~exists_on_disk(st, c.fs_path) THEN Outcome(st, NoError, None)
        ELSE Outcome(st, NoError, Object(_get_object_properties(st, remote_path)))
  IN At(convert_path(remote_path, OBJECTS_DIR))

\* a delete that removes the object file and leaves the sidecar
fs_delete_object_only(st, remote_path) ==
  LET Remove(c) ==
        IF c.raised # NoError THEN Outcome(st, c.raised, None)
        ELSE Outcome(remove_file(st, c.fs_path), NoError, Bool(TRUE))
  IN Remove(convert_path(remote_path, OBJECTS_DIR))

\* FileSystemProvider.delete
fs_delete(st, remote_path) ==
  LET Remove(c, m) ==
        IF c.raised # NoError THEN Outcome(st, c.raised, None)
        ELSE Outcome(remove_file(remove_file(st, c.fs_path), m.fs_path), NoError,
                     Bool(TRUE))
  IN Remove(convert_path(remote_path, OBJECTS_DIR),
            convert_path(remote_path, METADATA_DIR))

\* FileSystemProvider.get_bucket
fs_get_bucket(st, name) ==
  IF ~exists_on_disk(st, _fs_bucket_path(name)) THEN Outcome(st, NoError, None)
  ELSE Outcome(st, NoError,
               Object([NoObject EXCEPT !.name = name, !.fields = {"name"}]))

\* FileSystemProvider.create_bucket
fs_create_bucket(st, name) ==
  IF exists_on_disk(st, _fs_bucket_path(name)) THEN Outcome(st, NoError, Bool(FALSE))
  ELSE Outcome([st EXCEPT !.dirs = st.dirs \cup WithParents(_fs_bucket_path(name))],
               NoError, Bool(TRUE))

\* FileSystemProvider.list_blobs: the files below the path (recursive), or
\* the files and directories in it, each with its properties
fs_list_blobs(st, remote_path, recursive) ==
  LET Below(dir) == IF dir[Len(dir)] = "/" THEN dir ELSE dir \o <<"/">>
      Dir(path) == IF path[Len(path)] = "/" THEN SubSeq(path, 1, Len(path) - 1) ELSE path
      Inside(dir, q) ==
        /\ startswith(q, Below(dir))
        /\ Len(q) > Len(Below(dir))
        /\ ~HasSlash(SubSeq(q, Len(Below(dir)) + 1, Len(q)))
      file_paths(fs_path) ==
        IF recursive
          THEN {q \in DOMAIN st.files : startswith(q, Below(fs_path))}
          ELSE {q \in DOMAIN st.files \cup st.dirs : Inside(fs_path, q)}
      Yield(bucket, names) ==
        [i \in DOMAIN names |->
           _get_object_properties(st, get_cloud_storage_file_path(bucket, names[i]))]
      Walk(bp, c) ==
        IF c.raised # NoError THEN Outcome(st, c.raised, None)
        ELSE IF ~recursive /\ Dir(c.fs_path) \notin st.dirs
          THEN Outcome(st, Raise("FileNotFoundError", 0), None)
        ELSE Outcome(st, NoError,
               Listing(Yield(bp.bucket, Ordered(
                 { strip_from_left(p, Below(_fs_path(bp.bucket, <<>>, OBJECTS_DIR))) :
                   p \in file_paths(c.fs_path) }))))
  IN Walk(get_bucket_name_and_path(remote_path), convert_path(remote_path, OBJECTS_DIR))

\* FileSystemProvider.copy_file_to; a local source is a path (that names a
\* file or nothing) or an open handle
fs_copy_file_to(st, source, remote_path, metadata) ==
  LET Copied(w) ==
        IF w.raised = NoError
          THEN ReturnTrue(_write_metadata(w.st, remote_path, metadata))
        ELSE IF source.kind = "path" THEN Outcome(w.st, NoError, Bool(FALSE))
        ELSE Outcome(w.st, w.raised, None)
      To(c) ==
        IF c.raised # NoError THEN Outcome(c.st, c.raised, None)
        ELSE IF source.kind = "path" /\ ~source.exists
          THEN Outcome(c.st, NoError, Bool(FALSE))
        ELSE Copied(open_write(c.st, c.fs_path,
                               ObjectFile(IF source.kind = "path" THEN source.val
                                          ELSE ReadFileObj(source))))
  IN To(convert_path_for_write(st, remote_path, OBJECTS_DIR))

\* FileSystemProvider.copy_blob
fs_copy_blob(st, remote_source, remote_target) ==
  LET Copied(r) == Outcome(r.st, NoError, Bool(r.ok))
      Copy(s, c) ==
        IF s.raised # NoError THEN Outcome(st, s.raised, None)
        ELSE IF c.raised # NoError THEN Outcome(c.st, c.raised, None)
        ELSE Copied(copy_file(c.st, s.fs_path, c.fs_path))
  IN Copy(convert_path(remote_source, OBJECTS_DIR),
          convert_path_for_write(st, remote_target, OBJECTS_DIR))

\* a signing that gives the path with an expiry appended
fs_sign_url_with_expiry(remote_path, minutes) ==
  [method |-> "raw", path |-> remote_path \o <<"?">>, minutes |-> minutes]

\* FileSystemProvider.sign_download_url / sign_upload_url / sign_delete_url:
\* the path itself, whatever the minutes
fs_sign_url(remote_path, minutes) ==
  [method |-> "raw", path |-> remote_path, minutes |-> 0]

\* FileSystemProvider.upload_signed_url
fs_upload_signed_url(st, data, signed_url) ==
  fs_write_data(st, data, signed_url.path, NoMetadata)

\* FileSystemProvider.download_signed_url
fs_download_signed_url(st, signed_url) == fs_read_data(st, signed_url.path)

\* FileSystemProvider.delete_signed_url
fs_delete_signed_url(st, signed_url) ==
  LET Dropped(d) == Outcome(d.st, d.raised, None)
  IN Dropped(fs_delete(st, signed_url.path))

(***************************************************************************)
(* GcsProvider.  The remote store keeps buckets and blobs; every request   *)
(* to it can also fail on its own: `fault` is what the network or the      *)
(* service does to this one request ("none": the request is served,        *)
(* "unavailable": the service answers 503, "connection": no answer).       *)
(***************************************************************************)
Faults == {"none", "unavailable", "connection"}

blob_exists(st, bucket, name) == <<bucket, name>> \in DOMAIN st.blobs

put_blob(st, bucket, name, bytes, metadata) ==
  [st EXCEPT !.blobs =
     [k \in (DOMAIN st.blobs) \cup {<<bucket, name>>} |->
        IF k = <<bucket, name>> THEN [data |-> bytes, metadata |-> metadata]
        ELSE st.blobs[k]]]

drop_blob(st, bucket, name) ==
  [st EXCEPT !.blobs =
     [k \in (DOMAIN st.blobs) \ {<<bucket, name>>} |-> st.blobs[k]]]

\* what a request raises before it is served: a google.cloud.storage
\* request ("cloud"), a discovery-API request ("discovery"), a requests call
\* on a signed URL with raise_for_status ("http"), the signing of a URL
\* ("sign")
fault_error(api, fault) ==
  IF fault = "none" THEN NoError
  ELSE IF fault = "unavailable"
    THEN Raise(CASE api = "cloud" -> "InternalServerError"
                 [] api = "discovery" -> "HttpError"
                 [] api = "http" -> "requests.HTTPError"
                 [] OTHER -> "GoogleCloudError", 503)
  ELSE Raise(CASE api \in {"cloud", "discovery"} -> "ConnectionError"
               [] api = "http" -> "requests.ConnectionError"
               [] OTHER -> "TransportError", 0)

\* the bytes upload_from_string / upload_from_file send for data_or_fileobj
gcs_payload(data) ==
  IF data.kind \in {"bytes", "str"}
    THEN (IF data.kind = "str" THEN encode(data.val) ELSE data.val)
    ELSE ReadFileObj(data)

\* upload of a blob: the service rejects it with 404 when the bucket is absent
gcs_upload(st, remote_path, bytes, metadata, fault) ==
  LET Upload(bp) ==
        IF bp.raised # NoError THEN Outcome(st, bp.raised, None)
        ELSE IF fault # "none" THEN Outcome(st, fault_error("cloud", fault), None)
        ELSE IF bp.bucket \notin st.buckets
          THEN Outcome(st, Raise("NotFound", 404), None)
        ELSE Outcome(put_blob(st, bp.bucket, bp.path, bytes, metadata), NoError,
                     Bool(TRUE))
  IN Upload(get_bucket_name_and_path(remote_path))

\* GcsProvider.write_data
gcs_write_data(st, data, remote_path, metadata, fault) ==
  gcs_upload(st, remote_path, gcs_payload(data), metadata, fault)

\* GcsProvider.write_stream
gcs_write_stream(st, stream, remote_path, metadata, fault) ==
  gcs_upload(st, remote_path, stream_bytes(stream), metadata, fault)

\* GcsProvider.copy_file_to: upload_from_filename, or upload_from_file with
\* rewind=True
gcs_copy_file_to(st, source, remote_path, metadata, fault) ==
  IF source.kind = "path" /\ ~source.exists
    THEN Outcome(st, Raise("FileNotFoundError", 0), None)
    ELSE gcs_upload(st, remote_path, source.val, metadata, fault)

\* a read that takes every error of the service for not-found
gcs_read_data_any_error(st, remote_path, fault) ==
  LET Download(bp) ==
        IF bp.raised # NoError THEN Outcome(st, bp.raised, None)
        ELSE IF fault # "none" \/ ~blob_exists(st, bp.bucket, bp.path)
          THEN Outcome(st, NoError, None)
        ELSE Outcome(st, NoError, Bytes(st.blobs[<<bp.bucket, bp.path>>].data))
  IN Download(get_bucket_name_and_path(remote_path))

\* GcsProvider.read_data
gcs_read_data(st, remote_path, fault) ==
  LET Except(e) ==
        IF isinstance(e, "GoogleCloudError") /\ e.code = 404
          THEN Outcome(st, NoError, None)
          ELSE Outcome(st, e, None)
      Download(bp) ==
        IF bp.raised # NoError THEN Outcome(st, bp.raised, None)
        ELSE IF fault # "none" THEN Except(fault_error("cloud", fault))
        ELSE IF ~blob_exists(st, bp.bucket, bp.path) THEN Except(Raise("NotFound", 404))
        ELSE Outcome(st, NoError, Bytes(st.blobs[<<bp.bucket, bp.path>>].data))
  IN Download(get_bucket_name_and_path(remote_path))

\* GcsProvider.delete: Bucket.delete_blob raises NotFound for an absent blob
gcs_delete(st, remote_path, fault) ==
  LET Delete(bp) ==
        IF bp.raised # NoError THEN Outcome(st, bp.raised, None)
        ELSE IF fault # "none" THEN Outcome(st, fault_error("cloud", fault), None)
        ELSE IF ~blob_exists(st, bp.bucket, bp.path)
          THEN Outcome(st, Raise("NotFound", 404), None)
        ELSE Outcome(drop_blob(st, bp.bucket, bp.path), NoError, Bool(TRUE))
  IN Delete(get_bucket_name_and_path(remote_path))

\* the object resource objects().get returns
gcs_object_resource(st, bucket, name) ==
  LET Resource(blob) ==
        [bucket |-> bucket, name |-> name,
         fields |-> {"bucket", "name", "updated", "size"} \cup
                    (IF blob.metadata = NoMetadata THEN {} ELSE {"metadata"}),
         size |-> Len(blob.data), metadata |-> blob.metadata]
  IN Resource(st.blobs[<<bucket, name>>])

\* GcsProvider.get
gcs_get(st, remote_path, fault) ==
  LET Except(e) ==
        IF isinstance(e, "HttpError") /\ e.code = 404
          THEN Outcome(st, NoError, None)
          ELSE Outcome(st, e, None)
      Get(bp) ==
        IF bp.raised # NoError THEN Outcome(st, bp.raised, None)
        ELSE IF fault # "none" THEN Except(fault_error("discovery", fault))
        ELSE IF ~blob_exists(st, bp.bucket, bp.path) THEN Except(Raise("HttpError", 404))
        ELSE Outcome(st, NoError, Object(gcs_object_resource(st, bp.bucket, bp.path)))
  IN Get(get_bucket_name_and_path(remote_path))

\* GcsProvider.get_bucket
gcs_get_bucket(st, name, fault) ==
  LET Except(e) ==
        IF isinstance(e, "HttpError") /\ e.code = 404
          THEN Outcome(st, NoError, None)
          ELSE Outcome(st, e, None)
  IN IF fault # "none" THEN Except(fault_error("discovery", fault))
     ELSE IF name \notin st.buckets THEN Except(Raise("HttpError", 404))
     ELSE Outcome(st, NoError,
                  Object([NoObject EXCEPT !.name = name, !.fields = {"name"}]))

\* GcsProvider.create_bucket
gcs_create_bucket(st, name, fault) ==
  IF fault # "none" THEN Outcome(st, fault_error("discovery", fault), None)
  ELSE IF name \in st.buckets THEN Outcome(st, Raise("HttpError", 409), None)
  ELSE Outcome([st EXCEPT !.buckets = st.buckets \cup {name}], NoError, Bool(TRUE))

\* a page that leaves out the item after its last
list_page_with_gap(names, page_token, page_size) ==
  [items |-> SubSeq(names, page_token + 1,
                    IF page_token + page_size < Len(names) THEN page_token + page_size
                    ELSE Len(names)),
   next_page_token |-> IF page_token + page_size + 1 < Len(names)
                         THEN page_token + page_size + 1 ELSE 0]

\* one page of the listing the service holds for a request: page_size
\* items from the page token on (0: the start), and the token of the next
\* page (0: None, there is none)
list_page(names, page_token, page_size) ==
  [items |-> SubSeq(names, page_token + 1,
                    IF page_token + page_size < Len(names) THEN page_token + page_size
                    ELSE Len(names)),
   next_page_token |-> IF page_token + page_size < Len(names)
                         THEN page_token + page_size ELSE 0]

\* GcsProvider.list_blobs, recursive: `for blob in iterator` takes the
\* pages one after the other until a page has no token, and the while loop
\* lists again as long as the iterator is left with a token
gcs_list_blobs(st, remote_path, recursive, names_only, page_size, fault) ==
  LET Prefix(path) ==
        IF path # <<>> /\ path[Len(path)] # "/" THEN path \o <<"/">> ELSE path
      AfterPrefix(path, name) == SubSeq(name, Len(Prefix(path)) + 1, Len(name))
      \* the blobs the request matches: with the delimiter, those without
      \* a '/' after the prefix
      Matches(bp) ==
        {k[2] : k \in {q \in DOMAIN st.blobs :
                         /\ q[1] = bp.bucket
                         /\ startswith(q[2], Prefix(bp.path))
                         /\ recursive \/ ~HasSlash(AfterPrefix(bp.path, q[2]))}}
      \* iterator.prefixes: the "directories" of a delimiter listing
      Prefixes(bp) ==
        {Prefix(bp.path) \o SubSeq(AfterPrefix(bp.path, k[2]), 1, FirstSlash(AfterPrefix(bp.path, k[2]))) :
           k \in {q \in DOMAIN st.blobs :
                    /\ q[1] = bp.bucket
                    /\ startswith(q[2], Prefix(bp.path))
                    /\ HasSlash(AfterPrefix(bp.path, q[2]))}}
      Blob(bucket_name, name) ==
        [bucket |-> bucket_name, name |-> name,
         fields |-> {"bucket", "name", "updated", "size"},
         size |-> IF names_only THEN 0 ELSE Len(st.blobs[<<bucket_name, name>>].data),
         metadata |-> NoMetadata]
      Directory(bucket_name, prefix) ==
        [bucket |-> bucket_name, name |-> prefix, fields |-> {"bucket", "name"},
         size |-> 0, metadata |-> NoMetadata]
      Records(bp, names, prefixes) ==
        [i \in 1..(Len(names) + Len(prefixes)) |->
           IF i <= Len(names) THEN Blob(bp.bucket, names[i])
           ELSE Directory(bp.bucket, prefixes[i - Len(names)])]
      RECURSIVE Iterate(_, _)
      Iterate(names, page_token) ==
        LET Rest(page) ==
              IF page.next_page_token = 0
                THEN [items |-> page.items, next_page_token |-> 0]
                ELSE [items |-> page.items \o
                                  Iterate(names, page.next_page_token).items,
                      next_page_token |-> 0]
        IN Rest(list_page(names, page_token, page_size))
      RECURSIVE Loop(_, _)
      Loop(names, iterations) ==
        LET After(iterator) ==
              IF iterator.next_page_token = 0 THEN iterator.items
              ELSE iterator.items \o Loop(names, iterations + 1)
        IN After(Iterate(names, 0))
      List(bp) ==
        IF bp.raised # NoError THEN Outcome(st, bp.raised, None)
        ELSE IF fault # "none" THEN Outcome(st, fault_error("cloud", fault), None)
        ELSE IF bp.bucket \notin st.buckets
          THEN Outcome(st, Raise("NotFound", 404), None)
        ELSE Outcome(st, NoError,
               Listing(Records(bp, Loop(Ordered(Matches(bp)), 1),
                               IF recursive THEN <<>> ELSE Ordered(Prefixes(bp)))))
  IN List(get_bucket_name_and_path(remote_path))

\* GcsProvider.copy_blob
gcs_copy_blob(st, remote_source, remote_target, fault) ==
  LET Copy(s, t) ==
        IF s.raised # NoError THEN Outcome(st, s.raised, None)
        ELSE IF t.raised # NoError THEN Outcome(st, t.raised, None)
        ELSE IF fault # "none" THEN Outcome(st, fault_error("cloud", fault), None)
        ELSE IF ~blob_exists(st, s.bucket, s.path) \/ t.bucket \notin st.buckets
          THEN Outcome(st, Raise("NotFound", 404), None)
        ELSE Outcome(put_blob(st, t.bucket, t.path,
                              st.blobs[<<s.bucket, s.path>>].data,
                              st.blobs[<<s.bucket, s.path>>].metadata),
                     NoError, Bool(TRUE))
  IN Copy(get_bucket_name_and_path(remote_source),
          get_bucket_name_and_path(remote_target))

\* _sign_url: a V4 signed URL names the method, the object and the expiry
_sign_url(remote_path, minutes, method) ==
  [method |-> method, path |-> remote_path, minutes |-> minutes]

\* GcsProvider.sign_download_url
gcs_sign_download_url(remote_path, minutes) == _sign_url(remote_path, minutes, "GET")

\* GcsProvider.sign_upload_url
gcs_sign_upload_url(remote_path, minutes) == _sign_url(remote_path, minutes, "PUT")

\* GcsProvider.sign_delete_url
gcs_sign_delete_url(remote_path, minutes) ==
  _sign_url(remote_path, SIGNED_URL_EXPIRATION_MINUTES, "DELETE")

\* the status the service answers to a request on a signed URL
signed_url_status(st, signed_url, method) ==
  LET Status(bp) ==
        IF signed_url.method # method THEN 403
        ELSE IF method = "PUT"
          THEN (IF bp.bucket \in st.buckets THEN 200 ELSE 404)
        ELSE IF blob_exists(st, bp.bucket, bp.path)
          THEN (IF method = "DELETE" THEN 204 ELSE 200)
        ELSE 404
  IN Status(get_bucket_name_and_path(signed_url.path))

\* Response.raise_for_status
raise_for_status(status) ==
  IF status >= 400 THEN Raise("requests.HTTPError", status) ELSE NoError

\* GcsProvider.upload_signed_url
gcs_upload_signed_url(st, data, signed_url, fault) ==
  LET Put(bp, status) ==
        IF fault # "none" THEN Outcome(st, fault_error("http", fault), None)
        ELSE IF status >= 400 THEN Outcome(st, raise_for_status(status), None)
        ELSE Outcome(put_blob(st, bp.bucket, bp.path, gcs_payload(data), NoMetadata),
                     NoError, Bool(TRUE))
  IN Put(get_bucket_name_and_path(signed_url.path),
         signed_url_status(st, signed_url, "PUT"))

\* GcsProvider.delete_signed_url
gcs_delete_signed_url(st, signed_url, fault) ==
  LET Delete(bp, status) ==
        IF fault # "none" THEN Outcome(st, fault_error("http", fault), None)
        ELSE IF status >= 400 THEN Outcome(st, raise_for_status(status), None)
        ELSE Outcome(drop_blob(st, bp.bucket, bp.path), NoError, None)
  IN Delete(get_bucket_name_and_path(signed_url.path),
            signed_url_status(st, signed_url, "DELETE"))

(***************************************************************************)
(* _download_url: the HTTP GET of a signed URL and the reading of a        *)
(* response that is not a success.                                         *)
(***************************************************************************)
\* the error documents a response may carry: the expired-token document, two
\* other error codes, a well-formed document that names the token only
\* outside a Code element, and something that is not XML (an HTML page)
ErrorBody(kind) ==
  CASE kind = "expired" ->
         [xml |-> TRUE,
          children |-> <<<<"Code", "ExpiredToken">>, <<"Message", "expired">>>>]
    [] kind = "nokey" ->
         [xml |-> TRUE,
          children |-> <<<<"Code", "NoSuchKey">>, <<"Message", "no key">>>>]
    [] kind = "signature" ->
         [xml |-> TRUE, children |-> <<<<"Code", "SignatureDoesNotMatch">>>>]
    [] kind = "nocode" ->
         [xml |-> TRUE, children |-> <<<<"Message", "ExpiredToken">>>>]
    [] OTHER -> [xml |-> FALSE, children |-> <<>>]

DownloadFaults == Faults \cup {"expired", "nocode"}

\* requests.get(url): [raised, status_code, body, content]
http_get(st, signed_url, fault) ==
  LET Response(code, body, content) ==
        [raised |-> NoError, status_code |-> code, body |-> body, content |-> content]
      Served(bp, status) ==
        IF status = 200
          THEN Response(200, NoBody, st.blobs[<<bp.bucket, bp.path>>].data)
        ELSE IF status = 404 THEN Response(404, ErrorBody("nokey"), <<>>)
        ELSE Response(status, ErrorBody("signature"), <<>>)
  IN IF fault = "connection"
       THEN [raised |-> Raise("requests.ConnectionError", 0), status_code |-> 0,
             body |-> NoBody, content |-> <<>>]
     ELSE IF fault = "unavailable" THEN Response(503, ErrorBody("html"), <<>>)
     ELSE IF fault = "expired" THEN Response(400, ErrorBody("expired"), <<>>)
     ELSE IF fault = "nocode" THEN Response(400, ErrorBody("nocode"), <<>>)
     ELSE Served(get_bucket_name_and_path(signed_url.path),
                 signed_url_status(st, signed_url, "GET"))

\* Response.ok
response_ok(response) == response.status_code < 400

\* element_tree.find('Code').text of a body that parses and has the element
HasCode(body) == \E i \in 1..Len(body.children) : body.children[i][1] = "Code"

CodeText(body) ==
  body.children[CHOOSE i \in 1..Len(body.children) :
                  /\ body.children[i][1] = "Code"
                  /\ \A j \in 1..(i - 1) : body.children[j][1] # "Code"][2]

\* a body with the expired-token text in any of its elements
names_expired_token_in_any_element(body) ==
  /\ body.xml
  /\ \E i \in 1..Len(body.children) : body.children[i][2] = "ExpiredToken"

\* the try block of _download_url: TRUE when it raises ExpiredSignedUrlError
\* (a ParseError or an AttributeError is swallowed by the bare except)
names_expired_token(body) ==
  /\ body.xml
  /\ HasCode(body)
  /\ CodeText(body) = "ExpiredToken"

\* _download_url, one attempt (outside the integration-test environments,
\* where it is read_data)
_download_url(st, url, fault) ==
  LET Read(response) ==
        IF response.raised # NoError THEN Outcome(st, response.raised, None)
        ELSE IF ~response_ok(response)
          THEN (IF names_expired_token(response.body)
                  THEN Outcome(st, [type |-> "ExpiredSignedUrlError", code |-> 0,
                                    url |-> url, body |-> response.body], None)
                  ELSE Outcome(st, Raise("RuntimeError", response.status_code), None))
        ELSE Outcome(st, NoError, Bytes(response.content))
  IN Read(http_get(st, url, fault))

(***************************************************************************)
(* The public storage functions.                                           *)
(***************************************************************************)
\* _provider: chosen from the environment at every call
_provider(local_buckets_path) == IF local_buckets_path # "" THEN "fs" ELSE "gcs"

NoData == [kind |-> "bytes", val |-> <<>>, pos |-> 0, exists |-> FALSE]

\* the arguments of a call; a function reads the ones it has
NoArgs == [path |-> <<>>, data |-> NoData, stream |-> <<>>, metadata |-> NoMetadata,
           target |-> <<>>, url |-> NoUrl, minutes |-> 0, page_size |-> 1,
           recursive |-> TRUE]

\* str_to_bytes
str_to_bytes(data) ==
  IF data.kind # "str" THEN data ELSE [data EXCEPT !.kind = "bytes", !.val = encode(data.val)]

\* create_bucket_if_needed: True when the bucket is there, else what
\* create_bucket returns; g is what get_bucket did
create_bucket_if_needed(provider, g, name, fault) ==
  IF g.raised # NoError THEN g
  ELSE IF g.value # None THEN Outcome(g.st, NoError, Bool(TRUE))
  ELSE IF provider = "fs" THEN fs_create_bucket(g.st, name)
  ELSE gcs_create_bucket(g.st, name, fault)

\* exists: bool(get(...)), False on HttpError
exists_of(g) ==
  IF isinstance(g.raised, "HttpError") THEN Outcome(g.st, NoError, Bool(FALSE))
  ELSE IF g.raised # NoError THEN g
  ELSE Outcome(g.st, NoError, Bool(g.value # None))

\* the body of each public function (what the retry wrapper, if any, wraps):
\* one invocation, on the provider in force
Body(fn, provider, st, a, fault) ==
  CASE fn = "write_data" ->
         IF provider = "fs" THEN fs_write_data(st, a.data, a.path, a.metadata)
         ELSE gcs_write_data(st, a.data, a.path, a.metadata, fault)
    [] fn = "write_stream" ->
         IF provider = "fs" THEN fs_write_stream(st, a.stream, a.path, a.metadata)
         ELSE gcs_write_stream(st, a.stream, a.path, a.metadata, fault)
    [] fn = "read_data" ->
         IF provider = "fs" THEN fs_read_data(st, a.path)
         ELSE gcs_read_data(st, a.path, fault)
    [] fn = "delete" ->
         IF provider = "fs" THEN fs_delete(st, a.path)
         ELSE gcs_delete(st, a.path, fault)
    [] fn \in {"get", "exists"} ->
         IF provider = "fs"
           THEN (IF fn = "get" THEN fs_get(st, a.path)
                 ELSE exists_of(fs_get(st, a.path)))
           ELSE (IF fn = "get" THEN gcs_get(st, a.path, fault)
                 ELSE exists_of(gcs_get(st, a.path, fault)))
    [] fn = "get_bucket" ->
         IF provider = "fs" THEN fs_get_bucket(st, a.path)
         ELSE gcs_get_bucket(st, a.path, fault)
    [] fn = "create_bucket" ->
         IF provider = "fs" THEN fs_create_bucket(st, a.path)
         ELSE gcs_create_bucket(st, a.path, fault)
    [] fn = "create_bucket_if_needed" ->
         IF provider = "fs"
           THEN create_bucket_if_needed(provider, fs_get_bucket(st, a.path), a.path, fault)
           ELSE create_bucket_if_needed(provider, gcs_get_bucket(st, a.path, fault),
                                        a.path, fault)
    [] fn \in {"get_blobs", "list_blobs", "get_blobs_no_retry"} ->
         \* list_blobs asks for the names only and yields blob['name']
         IF fn = "list_blobs"
           THEN IF provider = "fs"
                  THEN ListedNames(fs_list_blobs(st, a.path, a.recursive))
                  ELSE ListedNames(gcs_list_blobs(st, a.path, a.recursive, TRUE,
                                                  a.page_size, fault))
         ELSE IF provider = "fs" THEN fs_list_blobs(st, a.path, a.recursive)
         ELSE gcs_list_blobs(st, a.path, a.recursive, FALSE, a.page_size, fault)
    [] fn = "copy_file_to" ->
         IF a.data.kind = "path" /\ ~a.data.exists
           THEN Outcome(st, NoError, Bool(FALSE))
         ELSE IF provider = "fs" THEN fs_copy_file_to(st, a.data, a.target, a.metadata)
         ELSE gcs_copy_file_to(st, a.data, a.target, a.metadata, fault)
    [] fn = "copy_blob" ->
         IF provider = "fs" THEN fs_copy_blob(st, a.path, a.target)
         ELSE gcs_copy_blob(st, a.path, a.target, fault)
    [] fn = "upload_signed_url" ->
         IF provider = "fs" THEN fs_upload_signed_url(st, str_to_bytes(a.data), a.url)
         ELSE gcs_upload_signed_url(st, str_to_bytes(a.data), a.url, fault)
    [] fn = "delete_signed_url" ->
         IF provider = "fs" THEN fs_delete_signed_url(st, a.url)
         ELSE gcs_delete_signed_url(st, a.url, fault)
    [] fn = "download_signed_url" -> fs_download_signed_url(st, a.url)
    [] fn = "_download_url" -> _download_url(st, a.url, fault)
    [] fn \in {"sign_delete_url", "get_signed_download_url", "get_signed_upload_url"} ->
         IF provider = "fs" THEN Outcome(st, NoError, Url(fs_sign_url(a.path, a.minutes)))
         ELSE IF fault # "none" THEN Outcome(st, fault_error("sign", fault), None)
         ELSE Outcome(st, NoError,
                      Url(IF fn = "sign_delete_url"
                            THEN gcs_sign_delete_url(a.path, a.minutes)
                          ELSE IF fn = "get_signed_download_url"
                            THEN gcs_sign_download_url(a.path, a.minutes)
                          ELSE gcs_sign_upload_url(a.path, a.minutes)))

(***************************************************************************)
(* retry.wrap(retries, delay, function, exception_types).                  *)
(***************************************************************************)
\* the exception types retried when the decorator names none
DEFAULT_EXCEPTION_TYPES == {"Exception"}

\* no function carries a decorator
decorator_on_no_function(fn) ==
  [wrapped |-> FALSE, retries |-> 0, delay |-> 0, exception_types |-> {}]

\* every function carries the decorator of read_data
decorator_on_every_function(fn) ==
  [wrapped |-> TRUE, retries |-> DEFAULT_FAIL_RETRIES, delay |-> DEFAULT_FAIL_WAIT,
   exception_types |-> TRANSIENT_ERRORS]

\* the @retry.wrap decorator each function carries, if any
decorator(fn) ==
  LET Wrapped(retries, delay, exception_types) ==
        [wrapped |-> TRUE, retries |-> retries, delay |-> delay,
         exception_types |-> exception_types]
      Unwrapped ==
        [wrapped |-> FALSE, retries |-> 0, delay |-> 0, exception_types |-> {}]
  IN
  CASE fn \in {"copy_file_from", "copy_file_to", "copy_blob", "delete",
               "last_updated", "read_data", "write_data", "write_stream",
               "get_blobs", "list_blobs"} ->
         Wrapped(DEFAULT_FAIL_RETRIES, DEFAULT_FAIL_WAIT, TRANSIENT_ERRORS)
    [] fn \in {"exists", "get", "get_acl", "set_acl", "upload_signed_url"} ->
         Wrapped(DEFAULT_FAIL_RETRIES, DEFAULT_FAIL_WAIT, DEFAULT_EXCEPTION_TYPES)
    [] fn = "_download_url" -> Wrapped(1, 1, TRANSIENT_ERRORS)
    [] OTHER -> Unwrapped

\* is_exception_type: the exception is an instance of one of the types
is_exception_type(e, exception_types) ==
  \E t \in exception_types : isinstance(e, t)

\* a wrapper whose attempts are the retries, not one more
should_retry_one_fewer(w, num_try, e) ==
  /\ w.wrapped
  /\ \E t \in w.exception_types : isinstance(e, t)
  /\ num_try < w.retries

\* whether the wrapper makes a further attempt after attempt num_try raised
\* e; a function without decorator has no wrapper and no further attempt
should_retry(w, num_try, e) ==
  /\ w.wrapped
  /\ is_exception_type(e, w.exception_types)
  /\ num_try < w.retries + 1

\* the outcome of a call, with the number of invocations of the wrapped
\* function and of sleeps between them
Result(o, calls, sleeps, delay) ==
  [st |-> o.st, raised |-> o.raised, value |-> o.value, calls |-> calls,
   sleeps |-> sleeps, slept |-> sleeps * delay]

\* the arguments as a failed attempt leaves them: an open file that
\* requests.put sent as the body of a signed-URL upload has been read to its
\* end when the service answered the request with an error, and nothing
\* puts it back; a request that got no answer is taken to have read nothing
consumed(fn, provider, a, fault) ==
  IF /\ provider = "gcs"
     /\ a.data.kind = "file"
     /\ fn = "upload_signed_url"
     /\ fault = "unavailable"
    THEN [a EXCEPT !.data.pos = Len(a.data.val)]
    ELSE a

RECURSIVE retry_wrap(_, _, _, _, _, _, _)
\* the wrapper's loop from attempt num_try on; faults[i] is what happens to
\* the request of attempt i
retry_wrap(w, fn, provider, st, a, faults, num_try) ==
  LET Attempt(o) ==
        IF o.raised # NoError /\ should_retry(w, num_try, o.raised)
          THEN retry_wrap(w, fn, provider, o.st,
                          consumed(fn, provider, a, faults[num_try]), faults,
                          num_try + 1)
          ELSE Result(o, num_try, num_try - 1, w.delay)
  IN Attempt(Body(fn, provider, st, a, faults[num_try]))

\* a call of a public function, through its decorator when it has one
call(fn, provider, st, a, faults) ==
  retry_wrap(decorator(fn), fn, provider, st, a, faults, 1)


(***************************************************************************)
(* The inputs the callers draw from.                                       *)
(***************************************************************************)
\* the bucket that exists and the one that does not
BucketA == <<"a">>

BucketN == <<"n">>

\* gs://a/f, gs://a/d/f and gs://n/f
PathF == <<"g", "s", ":", "/", "/", "a", "/", "f">>

PathDF == <<"g", "s", ":", "/", "/", "a", "/", "d", "/", "f">>

PathN == <<"g", "s", ":", "/", "/", "n", "/", "f">>

Paths == {PathF, PathDF, PathN}

\* data_or_fileobj: bytes, text, or an open file that was read up to pos;
\* golden is the byte string a reader of the stored object is to get back
Data(kind, val, pos, golden) ==
  [kind |-> kind, val |-> val, pos |-> pos, exists |-> TRUE, golden |-> golden]

DataInputs ==
  { Data("bytes", <<1, 2>>, 0, <<1, 2>>),
    Data("str", <<233>>, 0, <<195, 169>>),
    Data("file", <<1, 2>>, 1, <<2>>) }

\* a stream of one text chunk and one bytes chunk
StreamInputs ==
  { [chunks |-> <<Data("str", <<233>>, 0, <<>>), Data("bytes", <<1>>, 0, <<>>)>>,
     golden |-> <<195, 169, 1>>] }

\* a local file path (of a file, or of nothing) or an open handle
SourceInputs ==
  { Data("path", <<7>>, 0, <<7>>),
    [Data("path", <<>>, 0, <<>>) EXCEPT !.exists = FALSE],
    Data("file", <<1, 2>>, 0, <<1, 2>>) }

MetadataInputs == {NoMetadata, << <<"filename", "x">> >>}

\* the most requests of one call that meet a fault
MaxFaults == 9

Tries == DEFAULT_FAIL_RETRIES + 1

\* the first k requests meet fault f, the later ones are served
Plan(k, f) == [i \in 1..Tries |-> IF i <= k THEN f ELSE "none"]

(***************************************************************************)
(* State.                                                                  *)
(***************************************************************************)
Store == [dirs |-> fsDirs, files |-> fsFiles, buckets |-> gcsBuckets, blobs |-> gcsBlobs]

Absent == [present |-> FALSE, bytes |-> <<>>]

Present(bytes) == [present |-> TRUE, bytes |-> bytes]

\* what read_data shows of a path in a store, with every request served
Observed(provider, st, path) ==
  LET o == Body("read_data", provider, st, [NoArgs EXCEPT !.path = path], "none")
  IN IF o.raised = NoError /\ o.value.kind = "bytes" THEN Present(o.value.bytes)
     ELSE Absent

NoCall == [fn |-> "none", path |-> <<>>, raised |-> NoError, value |-> None,
           calls |-> 0, sleeps |-> 0, faults |-> 0, fault |-> "none",
           reached |-> FALSE, provider |-> "none", page_size |-> 0, minutes |-> 0,
           unique_id |-> <<>>, num_uploads |-> 0, metadata |-> NoMetadata]

\* the record of a call: its function, the path it names, what it did, and
\* the fault that the first `faults` requests of the call were to meet
Called(fn, path, r, k, f, reached) ==
  [fn |-> fn, path |-> path, raised |-> r.raised, value |-> r.value,
   calls |-> r.calls, sleeps |-> r.sleeps, faults |-> k, fault |-> f,
   reached |-> reached, provider |-> _provider(env), page_size |-> 0,
   minutes |-> 0, unique_id |-> <<>>, num_uploads |-> 0, metadata |-> NoMetadata]

\* no batch was started
NoPool == [op |-> "none", state |-> "closed", items |-> <<>>, done |-> <<>>,
          files |-> <<>>, result |-> <<>>, raised |-> NoError, logged |-> {},
          calls |-> <<>>, async |-> FALSE, func |-> "none"]

\* the threads of the process
MaxThreads == 2

Threads == 1..MaxThreads

\* the attributes of _local the code sets
Attributes == {"client", "signing_creds"}

\* an attribute that is not set
NoInstance == [kind |-> "none", thread |-> 0, n |-> 0]

\* no thread has set an attribute of _local, no instance was constructed,
\* every thread is outside _storage_client and _signing_creds, and none was
\* handed an instance
NoLocal ==
  [attrs |-> [t \in Threads |-> [name \in Attributes |-> NoInstance]],
   made |-> [t \in Threads |-> [name \in Attributes |-> 0]],
   pc |-> [t \in Threads |-> [at |-> "out", name |-> "none"]],
   handed |-> [t \in Threads |-> [name \in Attributes |->
                                    [ids |-> {}, again |-> FALSE]]]]

\* no path function was applied: bucket and path are the inputs, built is
\* what get_cloud_storage_file_path gave for the pair `origin`, parsed (with
\* raised) what get_bucket_name_and_path gave for the text `arg`
NoProbe == [fn |-> "none", bucket |-> <<>>, path |-> <<>>, raised |-> NoError,
            built |-> <<>>, origin |-> <<>>, arg |-> <<>>, parsed |-> <<>>]

\* the two callers that change the IAM policy of the bucket
Mutators == {1, 2}

\* no policy: None
NoPolicy == [none |-> TRUE, bindings |-> <<>>]

\* a policy: its bindings in order, each [role, members], members in order
Policy(bindings) == [none |-> FALSE, bindings |-> bindings]

\* a mutator that holds no policy and has called nothing. In iam, policy is
\* what the service holds, body the last body sent to setIamPolicy, and of
\* each mutator: iam_policy its copy, current whether the copy is of the
\* policy the service holds now, result what its last call returned, added
\* the <<role, member>> pairs its calls committed, role and member those of
\* its last add_single_bucket_iam and times how often in a row (up to 2)
\* that call has committed them
NoMutator == [iam_policy |-> NoPolicy, current |-> FALSE, fn |-> "none",
              result |-> NoPolicy, raised |-> NoError, added |-> {},
              role |-> "none", member |-> 0, times |-> 0, fault |-> "none"]

NoIam == [policy |-> Policy(<<>>), body |-> NoPolicy, sent |-> FALSE,
          mutator |-> [m \in Mutators |-> NoMutator]]

\* a value a legacy key or an object path can be: None, an integer or a
\* string
KeyValue(kind, int, str) == [kind |-> kind, int |-> int, str |-> str]

\* a response of the web application that is still to come
NoResponse == [status |-> 0, message |-> "none"]

\* the JSON body of a POST to the create-issue handler, with what the issue
\* tracker lookup and issue_filer.file_issue answer while it is served
Request(csrf_token, testcaseId, severity, issue_tracker, issue_id) == [csrf_token |-> csrf_token, testcaseId |-> testcaseId, severity |-> severity, issue_tracker |-> issue_tracker, issue_id |-> issue_id]

NoRequest == Request(0, KeyValue("None", 0, <<>>), KeyValue("None", 0, <<>>), FALSE, KeyValue("None", 0, <<>>))

\* no request served yet: testcase 1 stored, nobody logged in, no CSRF token
\* stored, the clock at 0. In web, fresh is the value of the next token
\* generated, deleted the tokens taken out of the store, filed the number of
\* issue_filer.file_issue calls and events what events.emit was given
NoWeb == [tokens |-> {}, now |-> 0, user |-> 0, fresh |-> 1, testcases |-> {1},
          requests |-> 0, request |-> NoRequest, ran |-> FALSE,
          response |-> NoResponse, events |-> <<>>, filed |-> 0, deleted |-> {}]

\* no GcsBlobInfo was constructed. In info, asked is the number of key()
\* calls on the handle and answer what the last of them returned
NoInfo == [made |-> FALSE, bucket |-> <<>>, object_path |-> <<>>, filename |-> <<>>,
           size |-> 0, legacy_key |-> KeyValue("None", 0, <<>>), asked |-> 0,
           answer |-> KeyValue("None", 0, <<>>)]

\* GcsProvider.list_blobs is not running. In a run, tokens is the number
\* of rounds that are still to leave the iterator with a next-page token
\* (Endless: every round does), and logged the rounds that logged
NoPaging == [pc |-> "idle", iterations |-> 0, next_page_token |-> 0,
             tokens |-> 0, logged |-> {}]

InitStore ==
  /\ env \in {"", "/r"}
  /\ fsDirs = {FsRoot, _fs_bucket_path(BucketA)}
  /\ fsFiles = [p \in {} |-> ObjectFile(<<>>)]
  /\ gcsBuckets = {BucketA}
  /\ gcsBlobs = [k \in {} |-> [data |-> <<>>, metadata |-> NoMetadata]]
  /\ signed = NoUrl
  /\ last = NoCall
  /\ written = [b \in {"fs", "gcs"} |-> [p \in Paths |-> Absent]]
  /\ pool = NoPool
  /\ local = NoLocal
  /\ web = NoWeb
  /\ info = NoInfo
  /\ iam = NoIam
  /\ paging = NoPaging

Init == InitStore /\ probe = NoProbe

\* the store a call of one public function leaves; such a call is no part
\* of a batch, and runs in the main thread with its client in place
Leave(r) ==
  /\ fsDirs' = r.st.dirs
  /\ fsFiles' = r.st.files
  /\ gcsBuckets' = r.st.buckets
  /\ gcsBlobs' = r.st.blobs
  /\ UNCHANGED <<pool, local, probe, paging, iam, info, web>>

\* the callers' record of a path after a call that stores bytes or deletes
Record(r, path, entry) ==
  written' = IF r.raised = NoError /\ r.value = Bool(TRUE)
               THEN [written EXCEPT ![_provider(env)][path] = entry]
               ELSE written

\* the callers' record of a path brought in line with what the store shows
Resync(r, path) ==
  written' = IF path \in Paths
               THEN [written EXCEPT ![_provider(env)][path] =
                       Observed(_provider(env), r.st, path)]
               ELSE written


(***************************************************************************)
(* Actions: one call of a public storage function each.                    *)
(***************************************************************************)
write_data(data, path, metadata, k, f) ==
  \E r \in {call("write_data", _provider(env), Store,
                 [NoArgs EXCEPT !.data = data, !.path = path, !.metadata = metadata],
                 Plan(k, f))} :
    /\ Leave(r)
    /\ last' = [Called("write_data", path, r, k, f, TRUE) EXCEPT !.metadata = metadata]
    /\ Record(r, path, Present(data.golden))
    /\ UNCHANGED <<env, signed>>

write_stream(stream, path, metadata, k, f) ==
  \E r \in {call("write_stream", _provider(env), Store,
                 [NoArgs EXCEPT !.stream = stream.chunks, !.path = path,
                                !.metadata = metadata],
                 Plan(k, f))} :
    /\ Leave(r)
    /\ last' = Called("write_stream", path, r, k, f, TRUE)
    /\ Record(r, path, Present(stream.golden))
    /\ UNCHANGED <<env, signed>>

delete(path, k, f) ==
  \E r \in {call("delete", _provider(env), Store, [NoArgs EXCEPT !.path = path],
                 Plan(k, f))} :
    /\ Leave(r)
    /\ last' = Called("delete", path, r, k, f, TRUE)
    /\ Record(r, path, Absent)
    /\ UNCHANGED <<env, signed>>

\* read_data, get, exists, get_bucket: calls that only look
Look(fn, path, k, f) ==
  \E r \in {call(fn, _provider(env), Store, [NoArgs EXCEPT !.path = path],
                 Plan(k, f))} :
    /\ Leave(r)
    /\ last' = Called(fn, path, r, k, f, TRUE)
    /\ UNCHANGED <<env, signed, written>>

copy_file_to(source, path, metadata, k, f) ==
  \E r \in {call("copy_file_to", _provider(env), Store,
                 [NoArgs EXCEPT !.data = source, !.target = path,
                                !.metadata = metadata],
                 Plan(k, f))} :
    /\ Leave(r)
    /\ last' = Called("copy_file_to", path, r, k, f,
                      ~(source.kind = "path" /\ ~source.exists))
    /\ Resync(r, path)
    /\ UNCHANGED <<env, signed>>

copy_blob(source, target, k, f) ==
  \E r \in {call("copy_blob", _provider(env), Store,
                 [NoArgs EXCEPT !.path = source, !.target = target], Plan(k, f))} :
    /\ Leave(r)
    /\ last' = Called("copy_blob", target, r, k, f, TRUE)
    /\ Resync(r, target)
    /\ UNCHANGED <<env, signed>>

\* sign_delete_url, get_signed_upload_url, get_signed_download_url: the
\* caller keeps the URL it was given
Sign(fn, path, minutes, k, f) ==
  \E r \in {call(fn, _provider(env), Store,
                 [NoArgs EXCEPT !.path = path, !.minutes = minutes], Plan(k, f))} :
    /\ Leave(r)
    /\ last' = [Called(fn, path, r, k, f, TRUE) EXCEPT !.minutes = minutes]
    /\ signed' = IF r.raised = NoError THEN r.value.url ELSE signed
    /\ UNCHANGED <<env, written>>

\* the calls on the URL the caller holds
upload_signed_url(data, k, f) ==
  /\ signed # NoUrl
  /\ \E r \in {call("upload_signed_url", _provider(env), Store,
                    [NoArgs EXCEPT !.data = data, !.url = signed], Plan(k, f))} :
       /\ Leave(r)
       /\ last' = Called("upload_signed_url", signed.path, r, k, f, TRUE)
       /\ Resync(r, signed.path)
       /\ UNCHANGED <<env, signed>>

delete_signed_url(k, f) ==
  /\ signed # NoUrl
  /\ \E r \in {call("delete_signed_url", _provider(env), Store,
                    [NoArgs EXCEPT !.url = signed], Plan(k, f))} :
       /\ Leave(r)
       /\ last' = Called("delete_signed_url", signed.path, r, k, f, TRUE)
       /\ Resync(r, signed.path)
       /\ UNCHANGED <<env, signed>>

\* the faults of a call: <<how many of its first requests, which fault>>.
\* Local disk has none; a remote call has none, one, or one on every request
NoFault == <<0, "none">>

PlansOf(counts) ==
  IF _provider(env) = "fs" THEN {NoFault}
  ELSE {NoFault} \cup (counts \X (Faults \ {"none"}))

FaultPlans == PlansOf({1, MaxFaults})

(***************************************************************************)
(* Writing, deleting and looking, on either backend.                       *)
(***************************************************************************)
Next ==
  \/ \E d \in DataInputs, p \in Paths, kf \in FaultPlans :
       write_data(d, p, NoMetadata, kf[1], kf[2])
  \/ \E s \in StreamInputs, p \in Paths, kf \in FaultPlans :
       write_stream(s, p, NoMetadata, kf[1], kf[2])
  \/ \E p \in Paths, kf \in FaultPlans : delete(p, kf[1], kf[2])
  \/ \E p \in Paths, kf \in FaultPlans : Look("read_data", p, kf[1], kf[2])
  \/ \E p \in Paths, kf \in FaultPlans : Look("get", p, kf[1], kf[2])
  \/ \E b \in {BucketA, BucketN}, kf \in FaultPlans :
       Look("get_bucket", b, kf[1], kf[2])

Spec == Init /\ [][Next]_vars


(***************************************************************************)
(* Properties of writing, deleting and looking.                            *)
(***************************************************************************)
Backend == _provider(env)

\* the object of a path is absent / the bucket of a name is absent
ObjectAbsent(path) == ~written[Backend][path].present

BucketAbsent(name) ==
  IF Backend = "fs" THEN _fs_bucket_path(name) \notin fsDirs
  ELSE name \notin gcsBuckets

\* every request the last call made met a fault
FaultsThroughout == last.faults >= last.calls

C2_DeleteAbsentSucceeds ==
  [][(/\ last'.fn = "delete"
      /\ last' # last
      /\ last'.faults = 0
      /\ ObjectAbsent(last'.path))
     => (/\ last'.raised = NoError
         /\ last'.value = Bool(TRUE)
         /\ last'.calls = 1
         /\ UNCHANGED <<fsDirs, fsFiles, gcsBuckets, gcsBlobs>>)]_vars

\* C3: on both backends read_data, get and get_bucket return None for an
\* absent object or bucket and only for one; a failure that outlasts the
\* call is raised, whether or not the object is there, and is never a
\* not-found; something present is returned as itself.
C3_NotFoundSentinel ==
  last.fn \in {"read_data", "get", "get_bucket"} =>
    LET absent == IF last.fn = "get_bucket" THEN BucketAbsent(last.path)
                  ELSE ObjectAbsent(last.path)
    IN /\ FaultsThroughout => (last.raised # NoError /\ last.raised.code # 404)
       /\ (~FaultsThroughout /\ absent) => (last.raised = NoError /\ last.value = None)
       /\ (~FaultsThroughout /\ ~absent) =>
            (last.raised = NoError /\ last.value.kind \in {"bytes", "object"})

\* get on the remote backend returns None for an absent object after a
\* request that failed
C3_Witness ==
  /\ Backend = "gcs"
  /\ last.fn = "get"
  /\ last.faults = 1
  /\ last.raised = NoError
  /\ last.value = None


(***************************************************************************)
(* Every writing operation, on the local backend.                          *)
(***************************************************************************)
InitFs == Init /\ env = "/r"

FsData == Data("bytes", <<1, 2>>, 0, <<1, 2>>)

FsTargets == {PathDF, PathN}

NextFs ==
  \/ \E p \in Paths, m \in MetadataInputs : write_data(FsData, p, m, 0, "none")
  \/ \E s \in StreamInputs, p \in FsTargets : write_stream(s, p, NoMetadata, 0, "none")
  \/ \E s \in SourceInputs, p \in FsTargets : copy_file_to(s, p, NoMetadata, 0, "none")
  \/ \E p \in FsTargets : copy_blob(PathF, p, 0, "none")
  \/ \E p \in FsTargets : Sign("get_signed_upload_url", p, 5, 0, "none")
  \/ upload_signed_url(FsData, 0, "none")

SpecFs == InitFs /\ [][NextFs]_vars

WritingOperations ==
  {"write_data", "write_stream", "copy_file_to", "copy_blob", "upload_signed_url"}

\* C4: on the local backend a writing operation (write_data, write_stream,
\* copy_file_to, copy_blob, upload_signed_url) that reaches the provider with
\* a target whose bucket does not exist raises the missing-bucket error and
\* leaves every directory and file as it was (the bucket is not created, no
\* object and no sidecar is written); with a bucket that exists it creates
\* the object subdirectories the target lacks.
C4_MissingBucketFailsFast ==
  [][\A l \in {last'} :
       (l.fn \in WritingOperations /\ l.reached /\ Backend = "fs") =>
         \E bp \in {get_bucket_name_and_path(l.path)} :
           IF _fs_bucket_path(bp.bucket) \notin fsDirs
             THEN /\ l.raised.type = "RuntimeError"
                  /\ UNCHANGED <<fsDirs, fsFiles>>
             ELSE /\ l.raised = NoError
                  /\ \E dir \in {dirname(_fs_path(bp.bucket, bp.path, OBJECTS_DIR))} :
                       WithParents(dir) \subseteq fsDirs']_vars

\* an upload to a signed URL of the missing bucket has failed, after a write
\* under gs://a/d/ had its subdirectory created
C4_Witness ==
  /\ Backend = "fs"
  /\ last.fn = "upload_signed_url"
  /\ last.path = PathN
  /\ last.raised.type = "RuntimeError"
  /\ _fs_bucket_path(BucketN) \notin fsDirs
  /\ <<"/", "r", "/", "a", "/", "o", "b", "j", "e", "c", "t", "s", "/", "d">> \in fsDirs
  /\ written["fs"][PathDF].present


(***************************************************************************)
(* Deleting, directly and through a signed DELETE URL, on either backend.  *)
(***************************************************************************)
DeleteTargets == {PathF, PathDF}

NextDelete ==
  \/ \E p \in DeleteTargets, m \in MetadataInputs, kf \in PlansOf({1}) :
       write_data(FsData, p, m, kf[1], kf[2])
  \/ \E p \in Paths, kf \in PlansOf({1}) : delete(p, kf[1], kf[2])
  \/ \E p \in {PathF, PathN}, kf \in PlansOf({1}) :
       Sign("sign_delete_url", p, 5, kf[1], kf[2])
  \/ \E kf \in PlansOf({1}) : delete_signed_url(kf[1], kf[2])
  \/ \E p \in DeleteTargets, kf \in PlansOf({1}) : Look("get", p, kf[1], kf[2])

SpecDelete == Init /\ [][NextDelete]_vars

\* the store a step leaves
StoreNext ==
  [dirs |-> fsDirs', files |-> fsFiles', buckets |-> gcsBuckets', blobs |-> gcsBlobs']

\* C5: a delete of X that completes, direct or through a DELETE URL signed
\* for X, removes the object X and the metadata of X and nothing else: every
\* other object, sidecar, directory and bucket is as before, get(X) is
\* not-found afterwards, and X written again without metadata shows empty
\* metadata.  On the local backend (the one with sidecars) the delete
\* completes whether or not the object or its sidecar is there.
C5_DeleteRemovesExactly ==
  [][\A l \in {last'}, after \in {StoreNext} :
       (l.fn \in {"delete", "delete_signed_url"}) =>
         \E bp \in {get_bucket_name_and_path(l.path)} :
           LET own == {_fs_path(bp.bucket, bp.path, OBJECTS_DIR),
                       _fs_path(bp.bucket, bp.path, METADATA_DIR)}
               again == Body("write_data", Backend, after,
                             [NoArgs EXCEPT !.path = l.path, !.data = FsData], "none")
               shown == Body("get", Backend, again.st,
                             [NoArgs EXCEPT !.path = l.path], "none")
           IN /\ (Backend = "fs" /\ l.faults = 0) => l.raised = NoError
              /\ l.raised = NoError =>
                   /\ after.dirs = fsDirs
                   /\ after.buckets = gcsBuckets
                   /\ DOMAIN after.files = (DOMAIN fsFiles) \ own
                   /\ \A q \in DOMAIN after.files : after.files[q] = fsFiles[q]
                   /\ DOMAIN after.blobs = (DOMAIN gcsBlobs) \ {<<bp.bucket, bp.path>>}
                   /\ \A q \in DOMAIN after.blobs : after.blobs[q] = gcsBlobs[q]
                   /\ Body("get", Backend, after, [NoArgs EXCEPT !.path = l.path],
                           "none").value = None
                   /\ again.raised = NoError =>
                        /\ shown.value.kind = "object"
                        /\ shown.value.obj.metadata = NoMetadata]_vars

\* gs://a/f, written with metadata, is gone through its DELETE URL while
\* gs://a/d/f and its sidecar are still there
C5_Witness ==
  /\ Backend = "fs"
  /\ last.fn = "delete_signed_url"
  /\ last.path = PathF
  /\ last.raised = NoError
  /\ _fs_path(BucketA, <<"f">>, OBJECTS_DIR) \notin DOMAIN fsFiles
  /\ _fs_path(BucketA, <<"d", "/", "f">>, OBJECTS_DIR) \in DOMAIN fsFiles
  /\ _fs_path(BucketA, <<"d", "/", "f">>, METADATA_DIR) \in DOMAIN fsFiles


(***************************************************************************)
(* Calls with standard arguments, for the properties of the retry policy:  *)
(* what a call was given can be told from its function and its path.       *)
(***************************************************************************)
\* a path get_bucket_name_and_path cannot split
Malformed == <<"x">>

\* gs://a, the bucket as a listing names it
BucketUrl == <<"g", "s", ":", "/", "/", "a">>

ArgsOf(fn, path, url) ==
  [path |-> IF fn = "copy_blob" THEN PathF ELSE path,
   data |-> Data("file", <<1, 2>>, 0, <<1, 2>>),
   stream |-> <<Data("bytes", <<1, 2>>, 0, <<>>)>>,
   metadata |-> NoMetadata, target |-> path, url |-> url, minutes |-> 5,
   page_size |-> 1, recursive |-> TRUE]

\* the function a public function runs its requests in
Inner(fn) ==
  IF fn = "download_signed_url" /\ Backend = "gcs" THEN "_download_url" ELSE fn

Do(fn, path, k, f) ==
  \E r \in {call(Inner(fn), Backend, Store, ArgsOf(fn, path, signed), Plan(k, f))} :
    /\ Leave(r)
    /\ last' = Called(fn, path, r, k, f, TRUE)
    /\ Resync(r, path)
    /\ signed' = IF r.raised = NoError /\ r.value.kind = "url" THEN r.value.url
                 ELSE signed
    /\ UNCHANGED env

\* no fault; or one fault, as many as there are retries, or more
RetryPlans == PlansOf({1, DEFAULT_FAIL_RETRIES, MaxFaults})

\* the wrapped functions and the path each is called with
RetryCalls ==
  ({"write_data"} \X {PathF, PathN, Malformed})
    \cup ({"read_data", "get"} \X {PathF, Malformed})
    \cup ({"write_stream", "delete", "exists", "copy_file_to"} \X {PathF})
    \cup {<<"copy_blob", PathDF>>}
    \cup ({"get_blobs", "list_blobs"} \X {BucketUrl})

NextRetry ==
  \/ \E c \in RetryCalls, kf \in RetryPlans : Do(c[1], c[2], kf[1], kf[2])
  \/ \E c \in {<<"get_signed_upload_url", PathF>>, <<"get_signed_upload_url", PathN>>,
                <<"get_signed_download_url", PathF>>} :
       Do(c[1], c[2], 0, "none")
  \/ /\ signed # NoUrl
     /\ \E fn \in {"upload_signed_url", "download_signed_url"} :
          \E kf \in RetryPlans \cup (IF fn = "download_signed_url"
                                        THEN {<<1, "expired">>} ELSE {}) :
            Do(fn, signed.path, kf[1], kf[2])

SpecRetry == Init /\ [][NextRetry]_vars

\* the public functions that run under a retry wrapper, and the attempts
\* the wrapper of each allows
RetryWrapped ==
  {"copy_file_to", "copy_blob", "delete", "read_data", "write_data", "write_stream",
   "get_blobs", "list_blobs", "exists", "get", "upload_signed_url"}
    \cup (IF Backend = "gcs" THEN {"download_signed_url"} ELSE {})

MaxAttempts(fn) == IF fn = "download_signed_url" THEN 2 ELSE DEFAULT_FAIL_RETRIES + 1

\* an error of the transient set
InTransientSet(e) == e # NoError /\ \E t \in TRANSIENT_ERRORS : isinstance(e, t)

\* an error the wrapper of fn retries: exists, get and upload_signed_url
\* name no types
Retried(fn, e) ==
  IF fn \in {"exists", "get", "upload_signed_url"} THEN e # NoError
  ELSE InTransientSet(e)

\* C6: a retry-wrapped function whose first k - 1 invocations raise a
\* retried error and whose k-th invocation (k <= maxAttempts) succeeds
\* returns the value of that invocation, leaves the store that invocation
\* leaves (on the arguments as the failed invocations left them), and is
\* invoked exactly k times with k - 1 sleeps.
C6_SuccessAfterRetries ==
  [][\A l \in {last'} :
       \E failed \in {Body(Inner(l.fn), Backend, Store,
                           ArgsOf(l.fn, l.path, signed), l.fault).raised},
          served \in {Body(Inner(l.fn), Backend, Store,
                           IF l.faults = 0 THEN ArgsOf(l.fn, l.path, signed)
                           ELSE consumed(l.fn, Backend,
                                         ArgsOf(l.fn, l.path, signed), l.fault),
                           "none")} :
         (/\ l.fn \in RetryWrapped
          /\ l.faults < MaxAttempts(l.fn)
          /\ l.faults = 0 \/ Retried(l.fn, failed)
          /\ served.raised = NoError)
         => (/\ l.raised = NoError
             /\ l.value = served.value
             /\ l.calls = l.faults + 1
             /\ l.sleeps = l.faults
             /\ StoreNext = served.st)]_vars

\* read_data has returned the bytes on its ninth invocation, the last one
\* the wrapper allows
C6_Witness ==
  /\ Backend = "gcs"
  /\ last.fn = "read_data"
  /\ last.faults = DEFAULT_FAIL_RETRIES
  /\ last.calls = DEFAULT_FAIL_RETRIES + 1
  /\ last.value = Bytes(<<1, 2>>)

\* C7: a retry-wrapped function that ends in a retried error was invoked
\* exactly maxAttempts times (maxAttempts - 1 sleeps), and when every one of
\* its invocations met the same error, that error is the one raised.
C7_ExhaustionRaises ==
  \A l \in {last} :
    l.fn \in RetryWrapped =>
      \E failed \in {Body(Inner(l.fn), Backend, Store,
                          ArgsOf(l.fn, l.path, signed), l.fault).raised} :
        /\ Retried(l.fn, l.raised) =>
             (l.calls = MaxAttempts(l.fn) /\ l.sleeps = MaxAttempts(l.fn) - 1)
        /\ (l.faults >= MaxAttempts(l.fn) /\ Retried(l.fn, failed)) =>
             (l.raised = failed /\ l.calls = MaxAttempts(l.fn))

\* write_data has raised the 503 that each of its nine invocations met
C7_Witness ==
  /\ Backend = "gcs"
  /\ last.fn = "write_data"
  /\ last.faults >= DEFAULT_FAIL_RETRIES + 1
  /\ last.raised = Raise("InternalServerError", 503)
  /\ last.calls = DEFAULT_FAIL_RETRIES + 1
  /\ last.sleeps = DEFAULT_FAIL_RETRIES

\* C8: a retry-wrapped function whose invocation raises an error outside
\* the transient set (missing bucket, malformed path, expired URL, HTTP
\* status that is not a success) raises it after one invocation and no sleep.
C8_NonTransientRaisedAtOnce ==
  \A l \in {last} :
    (/\ l.fn \in RetryWrapped
     /\ l.faults = 0
     /\ l.raised # NoError
     /\ ~InTransientSet(l.raised))
    => (l.calls = 1 /\ l.sleeps = 0)

(***************************************************************************)
(* Every public function that reaches the network, with and without a      *)
(* fault on its first request.                                             *)
(***************************************************************************)
NextPublic ==
  \/ \E fn \in {"write_data", "delete", "read_data", "get", "exists"},
        kf \in PlansOf({1}) : Do(fn, PathF, kf[1], kf[2])
  \/ \E fn \in {"get_blobs", "list_blobs", "get_blobs_no_retry"},
        kf \in PlansOf({1}) : Do(fn, BucketUrl, kf[1], kf[2])
  \/ \E fn \in {"get_bucket", "create_bucket_if_needed"},
        kf \in PlansOf({1}) : Do(fn, BucketN, kf[1], kf[2])
  \/ \E fn \in {"sign_delete_url", "get_signed_download_url", "get_signed_upload_url"},
        kf \in PlansOf({1}) : Do(fn, PathF, kf[1], kf[2])
  \/ /\ signed # NoUrl
     /\ \E fn \in {"upload_signed_url", "delete_signed_url", "download_signed_url"},
           kf \in PlansOf({1}) : Do(fn, signed.path, kf[1], kf[2])

SpecPublic == Init /\ [][NextPublic]_vars

\* the public functions defined without a retry decorator
Undecorated ==
  {"delete_signed_url", "get_bucket", "create_bucket_if_needed", "get_blobs_no_retry",
   "sign_delete_url", "get_signed_download_url", "get_signed_upload_url"}

\* what the first request of the last call raised
FirstFailure ==
  IF last.faults = 0 THEN NoError
  ELSE Body(Inner(last.fn), Backend, Store, ArgsOf(last.fn, last.path, signed),
            last.fault).raised

NextDownload ==
  \/ \E kf \in PlansOf({1}) : Do("write_data", PathF, kf[1], kf[2])
  \/ Do("delete", PathF, 0, "none")
  \/ \E p \in {PathF, PathN} : Do("get_signed_download_url", p, 0, "none")
  \/ Do("sign_delete_url", PathF, 0, "none")
  \/ /\ signed # NoUrl
     /\ \E k \in {0, 1, 2}, f \in DownloadFaults \ {"none"} :
          Do("download_signed_url", signed.path, k, f)

SpecDownload == Init /\ [][NextDownload]_vars

\* the response to the last request of the download just made
FinalResponse ==
  http_get(Store, signed, IF last.faults >= last.calls THEN last.fault ELSE "none")

\* the body is XML whose Code element reads ExpiredToken
NamesExpiredToken(body) ==
  /\ body.xml
  /\ \E i \in 1..Len(body.children) : body.children[i] = <<"Code", "ExpiredToken">>

\* C10: download_signed_url returns the content of a response that is a
\* success; for any other response it returns no data and raises
\* ExpiredSignedUrlError, carrying the URL and the response body, exactly
\* when the body names the expired-token code, and RuntimeError otherwise
\* (a body that does not parse included).
C10_ExpiredOrGeneric ==
  \A response \in {FinalResponse} :
    (Backend = "gcs" /\ last.fn = "download_signed_url" /\ response.raised = NoError)
      => IF response.status_code < 400
           THEN last.raised = NoError /\ last.value = Bytes(response.content)
           ELSE /\ last.raised # NoError
                /\ last.value = None
                /\ IF NamesExpiredToken(response.body)
                     THEN /\ last.raised.type = "ExpiredSignedUrlError"
                          /\ last.raised.url = signed
                          /\ last.raised.body = response.body
                     ELSE last.raised = Raise("RuntimeError", response.status_code)

\* the download has raised ExpiredSignedUrlError with the URL and the body
C10_Witness ==
  /\ Backend = "gcs"
  /\ last.fn = "download_signed_url"
  /\ last.raised.type = "ExpiredSignedUrlError"
  /\ last.raised.url = signed
  /\ signed.path = PathF
  /\ last.raised.body = ErrorBody("expired")
  /\ last.calls = 1

(***************************************************************************)
(* Batch transfers over signed URLs: upload_signed_urls,                   *)
(* download_signed_urls (the path through the pool) and                    *)
(* delete_signed_urls.  pool.map hands every item to a worker; the workers *)
(* run in any order, each on the item function, and the results come back  *)
(* in the order of the items.  pool.files is the local disk the items read *)
(* and write.                                                              *)
(***************************************************************************)
\* the most items of a batch
MaxBatch == 3

\* what one run of an item function did: the store and the local files it
\* leaves, what it returned, the exception it caught and whether it logged
\* it, and the exception it let go
ItemRun(st, files, returned, caught, logged, escaped) ==
  [st |-> st, files |-> files, returned |-> returned, caught |-> caught,
   logged |-> logged, escaped |-> escaped]

\* download_signed_url_to_file, after download_signed_url did r: open(..., 'wb')
\* makes the file, fp.write of None raises TypeError
download_signed_url_to_file(r, files, filepath) ==
  LET Written(bytes) == [p \in DOMAIN files \cup {filepath} |->
                           IF p = filepath THEN bytes ELSE files[p]]
  IN IF r.raised # NoError THEN [raised |-> r.raised, files |-> files]
     ELSE IF r.value.kind # "bytes"
       THEN [raised |-> Raise("TypeError", 0), files |-> Written(<<>>)]
     ELSE [raised |-> NoError, files |-> Written(r.value.bytes)]

\* an item function without its try, for the download
download_item_unguarded(provider, st, files, item, faults) ==
  LET Saved(r, w) == ItemRun(r.st, w.files, TRUE, NoError, FALSE, w.raised)
      Got(r) == Saved(r, download_signed_url_to_file(r, files, item.file))
  IN Got(call(IF provider = "gcs" THEN "_download_url" ELSE "download_signed_url",
              provider, st, [NoArgs EXCEPT !.url = item.url], faults))

\* _error_tolerant_download_signed_url_to_file
_error_tolerant_download_signed_url_to_file(provider, st, files, item, faults) ==
  LET Saved(r, w) ==
        ItemRun(r.st, w.files, w.raised = NoError, w.raised, FALSE, NoError)
      Got(r) == Saved(r, download_signed_url_to_file(r, files, item.file))
  IN Got(call(IF provider = "gcs" THEN "_download_url" ELSE "download_signed_url",
              provider, st, [NoArgs EXCEPT !.url = item.url], faults))

\* an upload item that answers True whatever happened
upload_item_always_true(provider, st, files, item, faults) ==
  LET Sent(r) == ItemRun(r.st, files, TRUE, r.raised, r.raised # NoError, NoError)
  IN IF item.file \notin DOMAIN files
       THEN ItemRun(st, files, TRUE, Raise("FileNotFoundError", 0), TRUE, NoError)
     ELSE Sent(call("upload_signed_url", provider, st,
                    [NoArgs EXCEPT !.url = item.url,
                                   !.data = Data("file", files[item.file], 0,
                                                 files[item.file])],
                    faults))

\* _error_tolerant_upload_signed_url: open(path, 'rb') of a missing file
\* raises inside the try
_error_tolerant_upload_signed_url(provider, st, files, item, faults) ==
  LET Sent(r) ==
        ItemRun(r.st, files, r.raised = NoError, r.raised, r.raised # NoError, NoError)
  IN IF item.file \notin DOMAIN files
       THEN ItemRun(st, files, FALSE, Raise("FileNotFoundError", 0), TRUE, NoError)
     ELSE Sent(call("upload_signed_url", provider, st,
                    [NoArgs EXCEPT !.url = item.url,
                                   !.data = Data("file", files[item.file], 0,
                                                 files[item.file])],
                    faults))

\* a delete item that stops at the first failure without a log entry
delete_item_unlogged(provider, st, files, item, faults) ==
  LET Sent(r) == ItemRun(r.st, files, FALSE, r.raised, FALSE, NoError)
  IN Sent(call("delete_signed_url", provider, st, [NoArgs EXCEPT !.url = item.url],
               faults))

\* _error_tolerant_delete_signed_url: returns None either way
_error_tolerant_delete_signed_url(provider, st, files, item, faults) ==
  LET Sent(r) == ItemRun(r.st, files, FALSE, r.raised, r.raised # NoError, NoError)
  IN Sent(call("delete_signed_url", provider, st, [NoArgs EXCEPT !.url = item.url],
               faults))

\* the URL the provider in force signs for an operation on a path
UrlFor(fn, path) ==
  Body(fn, Backend, Store, ArgsOf(fn, path, NoUrl), "none").value.url

\* the sequences of at most MaxBatch elements of a set
Batches(S) == UNION {[1..n -> S] : n \in 0..MaxBatch}

\* the local files of the caller before an upload
UploadFiles == [p \in {"u1", "u2"} |-> IF p = "u1" THEN <<1, 2>> ELSE <<3>>]

NoFiles == [p \in {} |-> <<>>]

\* upload_signed_urls / download_signed_urls / delete_signed_urls up to
\* pool.map: an empty list returns at once; the download names a file per
\* index under the directory
Submit(op, items, files) ==
  /\ pool.op = "none"
  /\ pool' = [op |-> op,
              state |-> IF items = <<>> THEN "returned" ELSE "open",
              items |-> IF op = "download_signed_urls"
                          THEN [i \in DOMAIN items |-> [items[i] EXCEPT !.file = i]]
                          ELSE items,
              done |-> [i \in DOMAIN items |->
                          [ran |-> FALSE, returned |-> FALSE, caught |-> NoError,
                           escaped |-> NoError]],
              files |-> files, result |-> <<>>, raised |-> NoError, logged |-> {},
              calls |-> <<>>, async |-> FALSE, func |-> "none"]
  /\ UNCHANGED <<env, fsDirs, fsFiles, gcsBuckets, gcsBlobs, signed, last, written,
                 local, probe, paging, iam, info, web>>

\* a worker of the pool runs the item function on item i
RunItem(i, k, f) ==
  /\ pool.state = "open"
  /\ i \in DOMAIN pool.items
  /\ ~pool.done[i].ran
  /\ \E x \in {CASE pool.op = "upload_signed_urls" ->
                      _error_tolerant_upload_signed_url(
                        Backend, Store, pool.files, pool.items[i], Plan(k, f))
                 [] pool.op = "download_signed_urls" ->
                      _error_tolerant_download_signed_url_to_file(
                        Backend, Store, pool.files, pool.items[i], Plan(k, f))
                 [] OTHER ->
                      _error_tolerant_delete_signed_url(
                        Backend, Store, pool.files, pool.items[i], Plan(k, f))} :
       /\ fsDirs' = x.st.dirs
       /\ fsFiles' = x.st.files
       /\ gcsBuckets' = x.st.buckets
       /\ gcsBlobs' = x.st.blobs
       /\ pool' = [pool EXCEPT
                     !.files = x.files,
                     !.done[i] = [ran |-> TRUE, returned |-> x.returned,
                                  caught |-> x.caught, escaped |-> x.escaped],
                     !.logged = IF x.logged THEN @ \cup {i} ELSE @]
  /\ UNCHANGED <<env, signed, last, written, local, probe, paging, iam, info, web>>

\* the end of the with block and of the function: every worker is through;
\* an exception an item let go comes out of pool.map, else the list of the
\* booleans (upload), of the <<url, filepath>> pairs with a true result
\* (download), or nothing (delete)
Return ==
  /\ pool.state = "open"
  /\ \A i \in DOMAIN pool.items : pool.done[i].ran
  /\ LET RECURSIVE Pairs(_)
         Pairs(n) ==
           IF n = 0 THEN <<>>
           ELSE Pairs(n - 1) \o (IF pool.done[n].returned THEN <<pool.items[n]>>
                                 ELSE <<>>)
         Let == {i \in DOMAIN pool.items : pool.done[i].escaped # NoError}
     IN pool' =
          IF Let # {}
            THEN [pool EXCEPT !.state = "raised",
                              !.raised = pool.done[CHOOSE i \in Let :
                                                     \A j \in Let : i <= j].escaped]
          ELSE [pool EXCEPT
                  !.state = "returned",
                  !.result =
                    CASE pool.op = "upload_signed_urls" ->
                           [i \in DOMAIN pool.items |-> pool.done[i].returned]
                      [] pool.op = "download_signed_urls" -> Pairs(Len(pool.items))
                      [] OTHER -> <<>>]
  /\ UNCHANGED <<env, fsDirs, fsFiles, gcsBuckets, gcsBlobs, signed, last, written,
                 local, probe, paging, iam, info, web>>

\* what a request of an item may meet: nothing, a 503 on the first request,
\* or no connection on any
ItemPlans == PlansOf({}) \cup
             (IF Backend = "gcs" THEN {<<1, "unavailable">>, <<MaxFaults, "connection">>}
              ELSE {})

NextBatch ==
  \/ /\ pool.op = "none"
     /\ \E p \in {PathF, PathDF} : Do("write_data", p, 0, "none")
  \/ \E items \in Batches({[url |-> UrlFor("get_signed_upload_url", p), file |-> u] :
                             p \in {PathF, PathN}, u \in {"u1", "nofile"}}) :
       Submit("upload_signed_urls", items, UploadFiles)
  \/ \E items \in Batches({[url |-> UrlFor("get_signed_download_url", p), file |-> 0] :
                             p \in {PathF, PathDF}}) :
       Submit("download_signed_urls", items, NoFiles)
  \/ \E items \in Batches({[url |-> UrlFor("sign_delete_url", p), file |-> 0] :
                             p \in {PathF, PathDF}}) :
       Submit("delete_signed_urls", items, NoFiles)
  \/ \E i \in 1..MaxBatch, kf \in ItemPlans : RunItem(i, kf[1], kf[2])
  \/ Return

SpecBatch == Init /\ [][NextBatch]_vars

\* the batch of the operation has come back to its caller
Back(op) == pool.op = op /\ pool.state \in {"returned", "raised"}

\* the items of the batch whose transfer raised nothing
Succeeded == {i \in DOMAIN pool.items : pool.done[i].caught = NoError}

\* C11: download_signed_urls raises nothing whichever items fail; every item
\* was run; the result holds the <<url, filepath>> pair of each item whose
\* download succeeded, once, and of no other item, and the file of each pair
\* holds the bytes of the object.
C11_DownloadsReturnSuccesses ==
  Back("download_signed_urls") =>
    /\ pool.state = "returned"
    /\ pool.raised = NoError
    /\ \A i \in DOMAIN pool.items : pool.done[i].ran
    /\ Len(pool.result) = Cardinality(Succeeded)
    /\ \A i \in Succeeded :
         /\ \E j \in DOMAIN pool.result : pool.result[j] = pool.items[i]
         /\ i \in DOMAIN pool.files
         /\ Present(pool.files[i]) = Observed(Backend, Store, pool.items[i].url.path)
    /\ \A j \in DOMAIN pool.result :
         \E i \in Succeeded : pool.result[j] = pool.items[i]

\* three downloads of which the second failed have given two pairs
C11_Witness ==
  /\ Back("download_signed_urls")
  /\ Len(pool.items) = 3
  /\ Succeeded = {1, 3}
  /\ pool.result = <<pool.items[1], pool.items[3]>>

\* C12: upload_signed_urls with n URLs and n files raises nothing and
\* returns n booleans, element i true exactly when the upload of files[i] to
\* urls[i] succeeded, and then the destination holds an object.
C12_UploadsAligned ==
  Back("upload_signed_urls") =>
    /\ pool.state = "returned"
    /\ pool.raised = NoError
    /\ Len(pool.result) = Len(pool.items)
    /\ \A i \in DOMAIN pool.items :
         /\ pool.done[i].ran
         /\ pool.result[i] = (i \in Succeeded)
         /\ pool.result[i] => Observed(Backend, Store, pool.items[i].url.path).present

\* three uploads of which the second failed alone
C12_Witness ==
  /\ Back("upload_signed_urls")
  /\ pool.result = <<TRUE, FALSE, TRUE>>
  /\ pool.done[2].caught # NoError

\* C13: delete_signed_urls raises nothing whichever items fail; the DELETE
\* of every URL was attempted, each failure was logged, and the object of
\* every URL is gone when the call returns.
C13_DeletesAllAttempted ==
  Back("delete_signed_urls") =>
    /\ pool.state = "returned"
    /\ pool.raised = NoError
    /\ \A i \in DOMAIN pool.items :
         /\ pool.done[i].ran
         /\ pool.done[i].caught # NoError <=> i \in pool.logged
         /\ i \in Succeeded => Observed(Backend, Store, pool.items[i].url.path) = Absent

\* three deletes: the first failed and was logged, the others went through
C13_Witness ==
  /\ Back("delete_signed_urls")
  /\ Len(pool.items) = 3
  /\ pool.logged = {1}
  /\ Succeeded = {2, 3}

(***************************************************************************)
(* parallel_map(func, argument_list), here with get_signed_upload_url as   *)
(* func (get_arbitrary_signed_upload_urls).  pool.calls is the state of    *)
(* each future: "queued", "running", "finished", "yielded" (removed from   *)
(* calls and given to the consumer) or "cancelled".                        *)
(***************************************************************************)
\* max_pool_size of parallel_map
max_pool_size == 2

\* Future.cancel(): a call that has not started is cancelled, one that is
\* running or finished is not (cancel returns False)
cancel(state) == IF state = "queued" THEN "cancelled" ELSE state

\* calls = [pool.submit(func, argument) for argument in argument_list]
parallel_map(func, argument_list) ==
  /\ pool.op = "none"
  /\ pool' = [NoPool EXCEPT
                !.op = "parallel_map", !.func = func, !.state = "open",
                !.items = argument_list,
                !.calls = [i \in DOMAIN argument_list |-> "queued"],
                !.done = [i \in DOMAIN argument_list |->
                            [ran |-> FALSE, returned |-> None, caught |-> NoError,
                             escaped |-> NoError]]]
  /\ UNCHANGED <<env, fsDirs, fsFiles, gcsBuckets, gcsBlobs, signed, last, written,
                 local, probe, paging, iam, info, web>>

\* a worker that is free takes the call queued first
Start(i) ==
  /\ pool.op = "parallel_map"
  /\ i \in DOMAIN pool.calls
  /\ pool.calls[i] = "queued"
  /\ \A j \in 1..(i - 1) : pool.calls[j] # "queued"
  /\ Cardinality({j \in DOMAIN pool.calls : pool.calls[j] = "running"}) < max_pool_size
  /\ pool' = [pool EXCEPT !.calls[i] = "running"]
  /\ UNCHANGED <<env, fsDirs, fsFiles, gcsBuckets, gcsBlobs, signed, last, written,
                 local, probe, paging, iam, info, web>>

\* func(argument) returns or raises in its worker, for get_signed_upload_url
\* as func; a call may also stay running for ever
Finish(i, k, f) ==
  /\ pool.op = "parallel_map"
  /\ pool.func = "get_signed_upload_url"
  /\ i \in DOMAIN pool.calls
  /\ pool.calls[i] = "running"
  /\ \E r \in {call("get_signed_upload_url", Backend, Store,
                    ArgsOf("get_signed_upload_url", pool.items[i], NoUrl), Plan(k, f))} :
       pool' = [pool EXCEPT
                  !.calls[i] = "finished",
                  !.done[i] = [ran |-> TRUE, returned |-> r.value, caught |-> NoError,
                               escaped |-> r.raised]]
  /\ UNCHANGED <<env, fsDirs, fsFiles, gcsBuckets, gcsBlobs, signed, last, written,
                 local, probe, paging, iam, info, web>>

\* futures.wait came back with finished calls: one of them is removed from
\* calls and its result() is yielded, or raises what the call raised
Yield(i) ==
  /\ pool.op = "parallel_map"
  /\ pool.state = "open"
  /\ i \in DOMAIN pool.calls
  /\ pool.calls[i] = "finished"
  /\ pool' = IF pool.done[i].escaped # NoError
               THEN [pool EXCEPT !.calls[i] = "yielded", !.state = "raising",
                                 !.raised = pool.done[i].escaped]
               ELSE [pool EXCEPT !.calls[i] = "yielded",
                                 !.result = Append(@, pool.done[i].returned)]
  /\ UNCHANGED <<env, fsDirs, fsFiles, gcsBuckets, gcsBlobs, signed, last, written,
                 local, probe, paging, iam, info, web>>

\* futures.wait came back after the timeout with no finished call: the
\* error is logged, every call left is asked to cancel, TimeoutError is raised
Timeout ==
  /\ pool.op = "parallel_map"
  /\ pool.state = "open"
  /\ \E i \in DOMAIN pool.calls : pool.calls[i] \in {"queued", "running"}
  /\ \A i \in DOMAIN pool.calls : pool.calls[i] # "finished"
  /\ pool' = [pool EXCEPT
                !.calls = [i \in DOMAIN pool.calls |-> cancel(pool.calls[i])],
                !.state = "raising",
                !.raised = Raise("TimeoutError", 0),
                !.logged = {0}]
  /\ UNCHANGED <<env, fsDirs, fsFiles, gcsBuckets, gcsBlobs, signed, last, written,
                 local, probe, paging, iam, info, web>>

\* a release that leaves the calls of the pool as they are
shutdown_leaving_workers(calls) == calls

\* the release of the pool with its workers cancelled: what runs is
\* stopped, what waits for a worker is dropped
shutdown(calls) ==
  [i \in DOMAIN calls |->
     IF calls[i] \in {"running", "queued"} THEN "cancelled" ELSE calls[i]]

\* the with block is left, with the list exhausted or with an exception on
\* its way to the consumer: the pool is released, its workers joined (wait:
\* they are through with every call handed to the pool) or cancelled
Release(wait) ==
  /\ pool.op = "parallel_map"
  /\ \/ pool.state = "raising"
     \/ pool.state = "open" /\ \A i \in DOMAIN pool.calls : pool.calls[i] = "yielded"
  /\ wait => \A i \in DOMAIN pool.calls : pool.calls[i] \notin {"running", "queued"}
  /\ pool' = [pool EXCEPT
                !.calls = shutdown(pool.calls),
                !.state = IF pool.state = "raising" THEN "raised" ELSE "returned"]
  /\ UNCHANGED <<env, fsDirs, fsFiles, gcsBuckets, gcsBlobs, signed, last, written,
                 local, probe, paging, iam, info, web>>

NextMap ==
  \/ \E argument_list \in Batches({PathF, PathDF, PathN}) : parallel_map("get_signed_upload_url", argument_list)
  \/ \E i \in 1..MaxBatch : Start(i)
  \/ \E i \in 1..MaxBatch, kf \in ItemPlans : Finish(i, kf[1], kf[2])
  \/ \E i \in 1..MaxBatch : Yield(i)
  \/ Timeout
  \/ \E wait \in BOOLEAN : Release(wait)

SpecMap == Init /\ [][NextMap]_vars

\* C14: once a wait round of parallel_map has ended with no call completed,
\* every call in flight is cancelled and the consumer gets the timeout
\* error without waiting for a call to finish: no call is left running when
\* TimeoutError is raised.
C14_TimeoutCancelsInFlight ==
  (pool.op = "parallel_map" /\ pool.raised = Raise("TimeoutError", 0)
     /\ pool.state = "raising")
    => \A i \in DOMAIN pool.calls : pool.calls[i] # "running"

(***************************************************************************)
(* The configuration value LOCAL_GCS_BUCKETS_PATH changing between the     *)
(* storage calls of one process.                                           *)
(***************************************************************************)
\* the process environment is given another value of the variable
SetEnv(local_buckets_path) ==
  /\ local_buckets_path # env
  /\ env' = local_buckets_path
  /\ UNCHANGED <<fsDirs, fsFiles, gcsBuckets, gcsBlobs, signed, last, written, pool,
                 local, probe, paging, iam, info, web>>

NextEnv ==
  \/ \E local_buckets_path \in {"", "/r"} : SetEnv(local_buckets_path)
  \/ \E p \in {PathF, PathDF}, kf \in PlansOf({1}) : Do("write_data", p, kf[1], kf[2])
  \/ \E p \in {PathF, PathDF}, kf \in PlansOf({1}) : Do("read_data", p, kf[1], kf[2])
  \/ \E p \in {PathF, PathDF} : Do("delete", p, 0, "none")
  \/ \E p \in {PathF, PathDF} : Do("get", p, 0, "none")

SpecEnv == Init /\ [][NextEnv]_vars

\* C15: the backend is chosen once per process: every storage call after
\* the first runs on the backend of the call before it, whatever happened to
\* LOCAL_GCS_BUCKETS_PATH in between.
C15_BackendChosenOnce ==
  [][(last.provider # "none" /\ last'.provider # "none")
       => last'.provider = last.provider]_vars

(***************************************************************************)
(* _storage_client() and _signing_creds() called from several threads.     *)
(* local.made counts the instances of each kind each thread constructed;   *)
(* an instance is known by its kind, the thread that constructed it and    *)
(* its number among those.                                                 *)
(***************************************************************************)
\* one namespace for every thread
module_global(l, t) == l.attrs[1]

\* threading.local(): the attributes the thread itself has set
_local(l, t) == l.attrs[t]

\* if not hasattr(_local, name): the thread enters _storage_client
\* ("client") or _signing_creds ("signing_creds") and looks for the attribute
HasAttr(t, name) ==
  /\ local.pc[t].at = "out"
  /\ local' = [local EXCEPT
                 !.pc[t] = [at |-> IF _local(local, t)[name] # NoInstance THEN "found"
                                   ELSE "missing",
                            name |-> name]]
  /\ UNCHANGED <<env, fsDirs, fsFiles, gcsBuckets, gcsBlobs, signed, last, written,
                 pool, probe, paging, iam, info, web>>

\* _local.client = _create_storage_client_new() / _new_signing_creds(): a
\* new instance, kept in the namespace of the thread
Construct(t) ==
  /\ local.pc[t].at = "missing"
  /\ local' = [local EXCEPT
                 !.made[t][local.pc[t].name] = @ + 1,
                 !.attrs[t][local.pc[t].name] =
                   [kind |-> local.pc[t].name, thread |-> t,
                    n |-> local.made[t][local.pc[t].name] + 1],
                 !.pc[t].at = "found"]
  /\ UNCHANGED <<env, fsDirs, fsFiles, gcsBuckets, gcsBlobs, signed, last, written,
                 pool, probe, paging, iam, info, web>>

\* return _local.client / return _local.signing_creds
ReturnAttr(t) ==
  /\ local.pc[t].at = "found"
  /\ \E id \in {_local(local, t)[local.pc[t].name]} :
       local' = [local EXCEPT
                   !.handed[t][local.pc[t].name] =
                     [ids |-> @.ids \cup {id}, again |-> @.again \/ @.ids # {}],
                   !.pc[t] = [at |-> "out", name |-> "none"]]
  /\ UNCHANGED <<env, fsDirs, fsFiles, gcsBuckets, gcsBlobs, signed, last, written,
                 pool, probe, paging, iam, info, web>>

NextThreads ==
  \/ \E t \in Threads, name \in Attributes : HasAttr(t, name)
  \/ \E t \in Threads : Construct(t)
  \/ \E t \in Threads : ReturnAttr(t)

SpecThreads == Init /\ [][NextThreads]_vars

\* C16: in every interleaving each thread constructs at most one client and
\* one set of signing credentials, is handed the same instance at every
\* call, and that instance is one the thread constructed itself.
C16_OnePerThread ==
  \A t \in Threads, name \in Attributes :
    /\ local.made[t][name] <= 1
    /\ Cardinality(local.handed[t][name].ids) <= 1
    /\ \A id \in local.handed[t][name].ids :
         id = [kind |-> name, thread |-> t, n |-> 1]

\* two threads were each handed their client more than once, and each has
\* its own
C16_Witness ==
  /\ \A t \in {1, 2} :
       /\ local.handed[t]["client"].again
       /\ local.handed[t]["client"].ids = {local.attrs[t]["client"]}
  /\ local.attrs[1]["client"] # local.attrs[2]["client"]

(***************************************************************************)
(* The path functions on their own: get_bucket_name_and_path and           *)
(* get_cloud_storage_file_path applied to texts and to each other's        *)
(* results.                                                                *)
(***************************************************************************)
\* the longest text after the prefix of an input
MaxLen == 4

\* the texts of at most n characters over '/', 'a' and 'b'
Texts(n) == UNION {[1..m -> {"/", "a", "b"}] : m \in 0..n}

\* a path as a caller may write it: with the prefix, without, or with a
\* part of it
PathInputs ==
  {prefix \o text : prefix \in {GS_PREFIX, <<>>, <<"g", "s", ":">>},
                    text \in Texts(MaxLen)}

InitPath ==
  /\ InitStore
  /\ env = ""
  /\ probe \in {[NoProbe EXCEPT !.bucket = b, !.path = p] :
                  b \in Texts(2), p \in PathInputs}

\* get_bucket_name_and_path of the input, or of the path built last
Parse ==
  /\ probe.fn \in {"none", "get_cloud_storage_file_path"}
  /\ \E text \in {IF probe.fn = "none" THEN probe.path ELSE probe.built} :
       \E bp \in {get_bucket_name_and_path(text)} :
         probe' = [probe EXCEPT !.fn = "get_bucket_name_and_path",
                                !.arg = text,
                                !.raised = bp.raised,
                                !.parsed = <<bp.bucket, bp.path>>]
  /\ UNCHANGED <<env, fsDirs, fsFiles, gcsBuckets, gcsBlobs, signed, last, written,
                 pool, local, paging, iam, info, web>>

\* get_cloud_storage_file_path of the inputs, or of the pair parsed last
Build ==
  /\ \/ probe.fn = "none"
     \/ probe.fn = "get_bucket_name_and_path" /\ probe.raised = NoError
                                             /\ probe.origin = <<>>
  /\ \E pair \in {IF probe.fn = "none" THEN <<probe.bucket, probe.path>>
                  ELSE probe.parsed} :
       probe' = [probe EXCEPT !.fn = "get_cloud_storage_file_path",
                              !.origin = pair,
                              !.built = get_cloud_storage_file_path(pair[1], pair[2])]
  /\ UNCHANGED <<env, fsDirs, fsFiles, gcsBuckets, gcsBlobs, signed, last, written,
                 pool, local, paging, iam, info, web>>

NextPath == Parse \/ Build

SpecPath == InitPath /\ [][NextPath]_vars

\* C17: for a bucket name without '/' and any object path, the empty one
\* included, get_bucket_name_and_path of the path built from the pair gives
\* the pair back; so the pair parsed from a path is parsed again from the
\* path built from it.
C17_ParseInvertsBuild ==
  (/\ probe.fn = "get_bucket_name_and_path"
   /\ probe.origin # <<>>
   /\ ~HasSlash(probe.origin[1]))
  => (probe.raised = NoError /\ probe.parsed = probe.origin)

\* the pair a path was parsed to, with the empty object path, came back
\* from the path built from it
C17_Witness ==
  /\ probe.fn = "get_bucket_name_and_path"
  /\ probe.path = <<"g", "s", ":", "/", "/", "a", "b">>
  /\ probe.origin = <<<<"a", "b">>, <<>>>>
  /\ probe.arg = <<"g", "s", ":", "/", "/", "a", "b", "/">>
  /\ probe.parsed = probe.origin

\* C18: get_bucket_name_and_path raises for every input that does not
\* start with gs:// or has no bucket name after it, and returns no pair for it.
C18_MalformedRejected ==
  (/\ probe.fn = "get_bucket_name_and_path"
   /\ probe.origin = <<>>
   /\ \/ ~startswith(probe.arg, GS_PREFIX \o <<"/">>)
      \/ Len(probe.arg) = Len(GS_PREFIX) + 1
      \/ probe.arg[Len(GS_PREFIX) + 2] = "/")
  => probe.raised # NoError

\* C19: the object path get_bucket_name_and_path returns never begins with
\* '/', whatever input it accepts.
C19_NoLeadingSlash ==
  (/\ probe.fn = "get_bucket_name_and_path"
   /\ probe.raised = NoError
   /\ probe.parsed[2] # <<>>)
  => probe.parsed[2][1] # "/"

(***************************************************************************)
(* Listings: objects are written and deleted under gs://a, and the bucket  *)
(* and its directory d are listed with the service giving pages of one     *)
(* size or another.                                                        *)
(***************************************************************************)
\* the most items the service gives in one page
MaxPage == 2

PageSizes == 1..MaxPage

PathDG == <<"g", "s", ":", "/", "/", "a", "/", "d", "/", "g">>

\* the objects that are written and deleted
ListObjects == {PathF, PathDF, PathDG}

\* the paths that are listed
ListPaths == {BucketUrl, <<"g", "s", ":", "/", "/", "a", "/", "d">>}

\* get_blobs, get_blobs_no_retry and list_blobs of one path
ListBlobs(fn, path, recursive, page_size) ==
  \E r \in {call(fn, Backend, Store,
                 [ArgsOf(fn, path, signed) EXCEPT !.page_size = page_size,
                                                  !.recursive = recursive],
                 Plan(0, "none"))} :
    /\ Leave(r)
    /\ last' = [Called(fn, path, r, 0, "none", TRUE) EXCEPT !.page_size = page_size]
    /\ Resync(r, path)
    /\ UNCHANGED <<env, signed>>

NextList ==
  \/ \E p \in ListObjects : Do("write_data", p, 0, "none")
  \/ \E p \in ListObjects : Do("delete", p, 0, "none")
  \/ \E fn \in {"get_blobs", "get_blobs_no_retry", "list_blobs"},
        path \in ListPaths, page_size \in PageSizes :
       ListBlobs(fn, path, TRUE, page_size)

SpecList == Init /\ [][NextList]_vars

\* the objects a backend holds under a path
ObjectsUnder(provider, st, path) ==
  {p \in ListObjects : /\ Observed(provider, st, p).present
                       /\ startswith(p, path \o <<"/">>)}

\* C20: on both backends a recursive listing of a path with N objects under
\* it yields N records, one for each object and none twice, whatever the
\* size of the pages the service gives.
C20_ListingYieldsEachObjectOnce ==
  [][(/\ last' # last
      /\ last'.fn \in {"get_blobs", "get_blobs_no_retry", "list_blobs"}
      /\ last'.raised = NoError)
     => /\ Len(last'.value.items) =
             Cardinality(ObjectsUnder(last'.provider, Store, last'.path))
        /\ {BucketUrl \o <<"/">> \o last'.value.items[i] :
              i \in DOMAIN last'.value.items}
             = ObjectsUnder(last'.provider, Store, last'.path)]_vars

\* three objects of the bucket were listed in pages of one item
C20_Witness ==
  /\ last.fn = "list_blobs"
  /\ last.provider = "gcs"
  /\ last.path = BucketUrl
  /\ last.page_size = 1
  /\ last.raised = NoError
  /\ Len(last.value.items) = 3

(***************************************************************************)
(* The loop of GcsProvider.list_blobs, round by round, against a service   *)
(* that leaves the iterator of a round with a next-page token or without.  *)
(***************************************************************************)
\* the rounds between two log entries of the loop
ROUNDS_PER_LOG == 50

\* the most rounds of one listing that are followed
MaxIterations == 120

\* the service has a next-page token after every round
Endless == MaxIterations + 1

\* the guard ends the loop
after_round_guard_breaks(iterations, next_page_token) ==
  [break |-> next_page_token = 0 \/ iterations % ROUNDS_PER_LOG = 0,
   log |-> FALSE]

\* the end of a round of the while loop: break without a token (0: None),
\* else logs.error on every 50th round
after_round(iterations, next_page_token) ==
  [break |-> next_page_token = 0,
   log |-> next_page_token # 0 /\ iterations # 0 /\ iterations % ROUNDS_PER_LOG = 0]

\* list_blobs is called and reaches its loop
StartListing(tokens) ==
  /\ paging.pc \in {"idle", "done"}
  /\ paging' = [NoPaging EXCEPT !.pc = "round", !.tokens = tokens]
  /\ UNCHANGED <<env, fsDirs, fsFiles, gcsBuckets, gcsBlobs, signed, last, written,
                 pool, local, probe, iam, info, web>>

\* a round: iterations += 1, the iterator is created and its blobs are
\* yielded, and next_page_token is read from it
Round ==
  /\ paging.pc = "round"
  /\ paging.iterations < MaxIterations
  /\ paging' = [paging EXCEPT
                  !.pc = "after",
                  !.iterations = @ + 1,
                  !.next_page_token = IF paging.tokens > 0 THEN 1 ELSE 0,
                  !.tokens = IF @ = Endless \/ @ = 0 THEN @ ELSE @ - 1]
  /\ UNCHANGED <<env, fsDirs, fsFiles, gcsBuckets, gcsBlobs, signed, last, written,
                 pool, local, probe, iam, info, web>>

\* the end of the round
AfterRound ==
  /\ paging.pc = "after"
  /\ \E a \in {after_round(paging.iterations, paging.next_page_token)} :
       paging' = [paging EXCEPT
                    !.pc = IF a.break THEN "done" ELSE "round",
                    !.logged = IF a.log THEN @ \cup {paging.iterations} ELSE @]
  /\ UNCHANGED <<env, fsDirs, fsFiles, gcsBuckets, gcsBlobs, signed, last, written,
                 pool, local, probe, iam, info, web>>

NextPaging ==
  \/ \E tokens \in 0..(2 * ROUNDS_PER_LOG + 1) \cup {Endless} : StartListing(tokens)
  \/ Round
  \/ AfterRound

\* the loop goes on while it can
SpecPaging == Init /\ [][NextPaging]_vars /\ WF_vars(Round) /\ WF_vars(AfterRound)

\* C21: the listing goes from round to round until a round leaves no
\* next-page token and stops there; every 50th round that leaves a token
\* logs, and such a round is followed by the next one; so a listing ends if
\* the service comes to a round without a token, and never ends if it does
\* not.
C21_PagesUntilNoToken ==
  /\ [][/\ (paging.pc = "after" /\ paging'.pc = "done") => paging.next_page_token = 0
        /\ (paging.pc = "after" /\ paging.next_page_token = 0) => paging'.pc = "done"
        /\ (paging.pc = "after" /\ paging.next_page_token # 0)
             => /\ paging'.pc = "round"
                /\ paging'.logged =
                     paging.logged \cup
                       (IF paging.iterations % ROUNDS_PER_LOG = 0
                          THEN {paging.iterations} ELSE {})]_vars
  /\ [](paging.tokens = Endless => paging.pc # "done")
  /\ ((paging.pc = "round" /\ paging.tokens # Endless) ~> paging.pc = "done")

\* a listing ended in its 52nd round, after the 50th had logged
C21_Witness ==
  /\ paging.pc = "done"
  /\ paging.iterations = ROUNDS_PER_LOG + 2
  /\ paging.logged = {ROUNDS_PER_LOG}

(***************************************************************************)
(* The records of listings and of get: objects are written and deleted     *)
(* under gs://a, the bucket and its directory d are listed with and        *)
(* without recursion, and objects are looked up.                           *)
(***************************************************************************)
NextRecords ==
  \/ \E p \in ListObjects : Do("write_data", p, 0, "none")
  \/ \E p \in ListObjects : Do("delete", p, 0, "none")
  \/ \E fn \in {"get_blobs", "get_blobs_no_retry", "list_blobs"},
        path \in ListPaths, recursive \in BOOLEAN :
       ListBlobs(fn, path, recursive, MaxPage)
  \/ \E p \in ListObjects : Do("get", p, 0, "none")

SpecRecords == Init /\ [][NextRecords]_vars

\* bucket, name, updatedAt, sizeBytes and userMetadata as the code names them
BlobMetadataFields == {"bucket", "name", "updated", "size", "metadata"}

\* C22: every record a listing yields or get returns, on either backend,
\* has all of bucket, name, updated, size and metadata.
C22_RecordsComplete ==
  last.raised = NoError
    => /\ \A i \in DOMAIN last.value.records :
            last.value.records[i].fields = BlobMetadataFields
       /\ last.value.kind = "object" => last.value.obj.fields = BlobMetadataFields

(***************************************************************************)
(* Bucket IAM policies.                                                    *)
(***************************************************************************)
Roles == {"viewer", "admin"}

\* the members, by their place in the order sorted() puts them in
Members == {1, 2}

\* sorted(list(set(members)))
sorted_set(members) ==
  LET S == {members[i] : i \in DOMAIN members}
  IN CHOOSE f \in [1..Cardinality(S) -> S] :
       \A i, j \in 1..Cardinality(S) : i < j => f[i] < f[j]

\* a body with the members of each binding as they are in iam_policy
filtered_without_set(iam_policy) ==
  LET NonEmpty(b) == b.members # <<>>
  IN Policy(SelectSeq(iam_policy.bindings, NonEmpty))

\* filtered_iam_policy of set_bucket_iam_policy: each binding's members
\* without duplicates, and no binding without members
filtered_iam_policy(iam_policy) ==
  LET NonEmpty(b) == b.members # <<>>
  IN Policy(SelectSeq([i \in DOMAIN iam_policy.bindings |->
                      [iam_policy.bindings[i] EXCEPT !.members = sorted_set(@)]],
                   NonEmpty))

\* get_bucket_iam_binding: the place of the first binding of the role, 0
\* for None
get_bucket_iam_binding(iam_policy, role) ==
  IF \E i \in DOMAIN iam_policy.bindings : iam_policy.bindings[i].role = role
    THEN CHOOSE i \in DOMAIN iam_policy.bindings :
           /\ iam_policy.bindings[i].role = role
           /\ \A j \in 1..(i - 1) : iam_policy.bindings[j].role # role
    ELSE 0

\* get_or_create_bucket_iam_binding: the policy it leaves
get_or_create_bucket_iam_binding(iam_policy, role) ==
  IF get_bucket_iam_binding(iam_policy, role) = 0
    THEN [iam_policy EXCEPT !.bindings = Append(@, [role |-> role, members |-> <<>>])]
    ELSE iam_policy

\* buckets().setIamPolicy(bucket, body).execute() at the service, which
\* refuses a body with a repeated member or an empty binding, and may or
\* may not refuse one made from a policy that is not the current one:
\* [policy, raised, response]
setIamPolicy(policy, body, current, checked, fault) ==
  IF fault # "none"
    THEN [policy |-> policy, raised |-> fault_error("discovery", fault),
          response |-> NoPolicy]
  ELSE IF \E i \in DOMAIN body.bindings :
            \/ body.bindings[i].members = <<>>
            \/ \E j, k \in DOMAIN body.bindings[i].members :
                 j # k /\ body.bindings[i].members[j] = body.bindings[i].members[k]
    THEN [policy |-> policy, raised |-> Raise("HttpError", 400), response |-> NoPolicy]
  ELSE IF checked /\ ~current
    THEN [policy |-> policy, raised |-> Raise("HttpError", 412), response |-> NoPolicy]
  ELSE [policy |-> body, raised |-> NoError, response |-> body]

\* a set that sends nothing when the copy is not of the current policy
set_bucket_iam_policy_if_current(policy, iam_policy, current, checked, fault) ==
  [policy |-> IF current THEN filtered_iam_policy(iam_policy) ELSE policy,
   body |-> IF current THEN filtered_iam_policy(iam_policy) ELSE NoPolicy,
   result |-> IF current THEN filtered_iam_policy(iam_policy) ELSE NoPolicy,
   raised |-> NoError, iam_policy |-> iam_policy]

\* copy.deepcopy(iam_policy): a value of its own, equal to the argument
deepcopy(iam_policy) == iam_policy

\* set_bucket_iam_policy: [policy, body, result, raised, iam_policy], the
\* last being the caller's object after the call: the filtering acts on the
\* deep copy; an HttpError is logged and None returned
set_bucket_iam_policy(policy, iam_policy, current, checked, fault) ==
  LET Set(body, r) ==
        [policy |-> r.policy, body |-> body,
         result |-> IF r.raised = NoError THEN r.response ELSE NoPolicy,
         raised |-> IF r.raised = NoError \/ isinstance(r.raised, "HttpError")
                      THEN NoError ELSE r.raised,
         iam_policy |-> iam_policy]
  IN Set(filtered_iam_policy(deepcopy(iam_policy)),
         setIamPolicy(policy, filtered_iam_policy(deepcopy(iam_policy)), current,
                      checked, fault))

\* a pop that takes nothing off the list
pop_nothing(members) == members

\* list.pop(): the list without its last element
pop(members) == SubSeq(members, 1, Len(members) - 1)

\* add_single_bucket_iam: the member is appended to the binding of the
\* role in the caller's object, the policy is set, and, unless the set
\* raised, the member is popped again
add_single_bucket_iam(policy, iam_policy, role, member, current, checked, fault) ==
  LET binding == get_bucket_iam_binding(iam_policy, role)
      Popped(r) ==
        IF r.raised # NoError THEN r
        ELSE [r EXCEPT !.iam_policy.bindings[binding].members = pop(@)]
  IN IF iam_policy.none \/ binding = 0
       THEN [policy |-> policy, body |-> NoPolicy, result |-> NoPolicy,
             raised |-> Raise("TypeError", 0), iam_policy |-> iam_policy]
       ELSE Popped(set_bucket_iam_policy(
                     policy,
                     [iam_policy EXCEPT !.bindings[binding].members = Append(@, member)],
                     current, checked, fault))

\* get_bucket_iam_policy: [result, raised]; an HttpError is logged and None
\* returned
get_bucket_iam_policy(policy, fault) ==
  IF fault = "none" THEN [result |-> policy, raised |-> NoError]
  ELSE IF isinstance(fault_error("discovery", fault), "HttpError")
    THEN [result |-> NoPolicy, raised |-> NoError]
  ELSE [result |-> NoPolicy, raised |-> fault_error("discovery", fault)]

\* what a call of a mutator leaves of iam: the service's policy and the
\* mutator's record; a policy set makes every copy one of an earlier policy
AfterCall(m, policy, body, record) ==
  iam' = [policy |-> policy,
          body |-> IF body.none THEN iam.body ELSE body,
          sent |-> iam.sent \/ ~body.none,
          mutator |-> [n \in Mutators |->
                         IF n = m THEN record
                         ELSE IF policy # iam.policy
                           THEN [iam.mutator[n] EXCEPT !.current = FALSE]
                         ELSE iam.mutator[n]]]

\* iam_policy = get_bucket_iam_policy(storage, bucket_name)
GetBucketIamPolicy(m, fault) ==
  /\ \E r \in {get_bucket_iam_policy(iam.policy, fault)} :
       AfterCall(m, iam.policy, NoPolicy,
                 [iam.mutator[m] EXCEPT !.fn = "get_bucket_iam_policy",
                                        !.fault = fault,
                                        !.iam_policy = r.result,
                                        !.current = ~r.result.none,
                                        !.result = r.result,
                                        !.raised = r.raised])
  /\ UNCHANGED <<env, fsDirs, fsFiles, gcsBuckets, gcsBlobs, signed, last, written,
                 pool, local, probe, paging, info, web>>

\* get_or_create_bucket_iam_binding(iam_policy, role)
GetOrCreateBinding(m, role) ==
  /\ ~iam.mutator[m].iam_policy.none
  /\ get_bucket_iam_binding(iam.mutator[m].iam_policy, role) = 0
  /\ AfterCall(m, iam.policy, NoPolicy,
               [iam.mutator[m] EXCEPT
                  !.fn = "get_or_create_bucket_iam_binding",
                  !.iam_policy = get_or_create_bucket_iam_binding(@, role),
                  !.raised = NoError])
  /\ UNCHANGED <<env, fsDirs, fsFiles, gcsBuckets, gcsBlobs, signed, last, written,
                 pool, local, probe, paging, info, web>>

\* the caller takes a member out of the binding of a role
RemoveMember(m, role, member) ==
  /\ ~iam.mutator[m].iam_policy.none
  /\ \E b \in {get_bucket_iam_binding(iam.mutator[m].iam_policy, role)} :
       /\ b # 0
       /\ \E i \in DOMAIN iam.mutator[m].iam_policy.bindings[b].members :
            iam.mutator[m].iam_policy.bindings[b].members[i] = member
       /\ AfterCall(m, iam.policy, NoPolicy,
                    [iam.mutator[m] EXCEPT
                       !.fn = "remove",
                       !.role = role,
                       !.iam_policy.bindings[b].members =
                          LET Other(x) == x # member IN SelectSeq(@, Other),
                       !.raised = NoError])
  /\ UNCHANGED <<env, fsDirs, fsFiles, gcsBuckets, gcsBlobs, signed, last, written,
                 pool, local, probe, paging, info, web>>

\* set_bucket_iam_policy(client, bucket_name, iam_policy)
SetBucketIamPolicy(m, checked, fault) ==
  /\ ~iam.mutator[m].iam_policy.none
  /\ \E r \in {set_bucket_iam_policy(iam.policy, iam.mutator[m].iam_policy,
                                     iam.mutator[m].current, checked, fault)} :
       AfterCall(m, r.policy, r.body,
                 [iam.mutator[m] EXCEPT !.fn = "set_bucket_iam_policy",
                                        !.fault = fault,
                                        !.iam_policy = r.iam_policy,
                                        !.result = r.result,
                                        !.raised = r.raised,
                                        !.current = FALSE])
  /\ UNCHANGED <<env, fsDirs, fsFiles, gcsBuckets, gcsBlobs, signed, last, written,
                 pool, local, probe, paging, info, web>>

\* add_single_bucket_iam(storage, iam_policy, role, bucket_name, member)
AddSingleBucketIam(m, role, member, checked, fault) ==
  /\ \E r \in {add_single_bucket_iam(iam.policy, iam.mutator[m].iam_policy, role,
                                     member, iam.mutator[m].current, checked, fault)} :
       AfterCall(m, r.policy, r.body,
                 [iam.mutator[m] EXCEPT
                    !.fn = "add_single_bucket_iam",
                    !.fault = fault,
                    !.iam_policy = r.iam_policy,
                    !.result = r.result,
                    !.raised = r.raised,
                    !.current = IF r.result.none THEN @ ELSE FALSE,
                    !.role = role,
                    !.member = member,
                    !.added = IF r.result.none THEN @ ELSE @ \cup {<<role, member>>},
                    !.times = IF r.result.none THEN 0
                              ELSE IF iam.mutator[m].role = role
                                      /\ iam.mutator[m].member = member
                                      /\ iam.mutator[m].times > 0
                                THEN 2 ELSE 1])
  /\ UNCHANGED <<env, fsDirs, fsFiles, gcsBuckets, gcsBlobs, signed, last, written,
                 pool, local, probe, paging, info, web>>

\* the caller goes on with the policy its last call returned
TakeResult(m) ==
  /\ iam.mutator[m].fn \in {"set_bucket_iam_policy", "add_single_bucket_iam"}
  /\ ~iam.mutator[m].result.none
  /\ AfterCall(m, iam.policy, NoPolicy,
               [iam.mutator[m] EXCEPT !.fn = "result",
                                      !.iam_policy = iam.mutator[m].result,
                                      !.current = iam.mutator[m].result = iam.policy])
  /\ UNCHANGED <<env, fsDirs, fsFiles, gcsBuckets, gcsBlobs, signed, last, written,
                 pool, local, probe, paging, info, web>>

\* one caller reads the policy, changes its copy, and sets it
NextIam ==
  \/ GetBucketIamPolicy(1, "none")
  \/ \E role \in Roles : GetOrCreateBinding(1, role)
  \/ \E role \in Roles, member \in Members : RemoveMember(1, role, member)
  \/ \E checked \in BOOLEAN : SetBucketIamPolicy(1, checked, "none")
  \/ \E role \in Roles, member \in Members, checked \in BOOLEAN :
       AddSingleBucketIam(1, role, member, checked, "none")
  \/ TakeResult(1)

SpecIam == Init /\ [][NextIam]_vars

\* no member twice in a binding, and no binding without members
WellFormed(policy) ==
  \A i \in DOMAIN policy.bindings :
    /\ policy.bindings[i].members # <<>>
    /\ \A j, k \in DOMAIN policy.bindings[i].members :
         j # k => policy.bindings[i].members[j] # policy.bindings[i].members[k]

\* how often the member is listed under the role
Listed(policy, role, member) ==
  Cardinality({ij \in UNION {{<<i, j>> : j \in DOMAIN policy.bindings[i].members} :
                              i \in DOMAIN policy.bindings} :
                 /\ policy.bindings[ij[1]].role = role
                 /\ policy.bindings[ij[1]].members[ij[2]] = member})

\* C23: every body set_bucket_iam_policy sends has no member twice in a
\* binding and no binding without members; so a member added to a role,
\* once or twice in a row, is listed under it exactly once, and a policy set
\* from a copy whose binding of a role has lost its members has no binding
\* of the role.
C23_CommittedPolicyWellFormed ==
  /\ WellFormed(iam.body)
  /\ WellFormed(iam.policy)
  /\ \A m \in Mutators :
       /\ (iam.mutator[m].fn = "add_single_bucket_iam" /\ iam.mutator[m].times > 0)
            => Listed(iam.mutator[m].result, iam.mutator[m].role,
                      iam.mutator[m].member) = 1
       /\ (/\ iam.mutator[m].fn = "set_bucket_iam_policy"
           /\ ~iam.mutator[m].result.none
           /\ \E i \in DOMAIN iam.mutator[m].iam_policy.bindings :
                /\ iam.mutator[m].iam_policy.bindings[i].role = iam.mutator[m].role
                /\ iam.mutator[m].iam_policy.bindings[i].members = <<>>)
            => get_bucket_iam_binding(iam.mutator[m].result, iam.mutator[m].role) = 0

\* the same member was added to the same role twice in a row, the second
\* time to a copy that listed it already
C23_Witness ==
  /\ iam.mutator[1].fn = "add_single_bucket_iam"
  /\ iam.mutator[1].times = 2
  /\ Listed(iam.mutator[1].iam_policy, iam.mutator[1].role, iam.mutator[1].member) = 1
  /\ Listed(iam.policy, iam.mutator[1].role, iam.mutator[1].member) = 1

(***************************************************************************)
(* Two callers change the policy of one bucket, each from its own copy.    *)
(***************************************************************************)
NextRace ==
  \/ \E m \in Mutators : GetBucketIamPolicy(m, "none")
  \/ \E m \in Mutators : GetOrCreateBinding(m, "viewer")
  \/ \E m \in Mutators, checked \in BOOLEAN :
       AddSingleBucketIam(m, "viewer", m, checked, "none")
  \/ \E m \in Mutators : TakeResult(m)

SpecRace == Init /\ [][NextRace]_vars

\* C24: a mutator's add_single_bucket_iam sends its body whether or not
\* the policy has been set by another since the mutator read its copy: the
\* member is in the body, and unless the service refuses it the body
\* becomes the policy, with or without what the others have added; so a
\* member another mutator added can be lost.
C24_CommitWithoutToken ==
  [][\A m \in Mutators :
       (/\ [iam'.mutator[m] EXCEPT !.current = FALSE]
             # [iam.mutator[m] EXCEPT !.current = FALSE]
        /\ iam'.mutator[m].fn = "add_single_bucket_iam"
        /\ iam'.mutator[m].raised = NoError)
         => /\ Listed(iam'.body, iam'.mutator[m].role, iam'.mutator[m].member) = 1
            /\ iam'.policy = IF iam'.mutator[m].result.none THEN iam.policy
                             ELSE iam'.body
            /\ \A i \in DOMAIN iam'.body.bindings :
                 \A j \in DOMAIN iam'.body.bindings[i].members :
                   \/ iam'.body.bindings[i].members[j] = iam'.mutator[m].member
                   \/ Listed(iam.mutator[m].iam_policy, iam'.body.bindings[i].role,
                             iam'.body.bindings[i].members[j]) = 1]_vars

\* both mutators have read the policy and added their member to the role,
\* and the policy lacks the member of the first
C24_Witness ==
  /\ iam.mutator[1].added = {<<"viewer", 1>>}
  /\ iam.mutator[2].added = {<<"viewer", 2>>}
  /\ Listed(iam.policy, "viewer", 1) = 0
  /\ Listed(iam.policy, "viewer", 2) = 1

(***************************************************************************)
(* Buckets are created, by the provider's create_bucket and by             *)
(* create_bucket_if_needed, and objects are written to them.               *)
(***************************************************************************)
NextBuckets ==
  \/ \E b \in {BucketA, BucketN} : Do("create_bucket", b, 0, "none")
  \/ \E b \in {BucketA, BucketN} : Do("create_bucket_if_needed", b, 0, "none")
  \/ \E b \in {BucketA, BucketN} : Do("get_bucket", b, 0, "none")
  \/ \E p \in Paths : Do("write_data", p, 0, "none")
  \/ \E p \in Paths : Do("delete", p, 0, "none")

SpecBuckets == Init /\ [][NextBuckets]_vars

\* C25: create_bucket and create_bucket_if_needed of a name that is a
\* bucket already return True without raising, on both backends, and leave
\* the buckets and their objects as they are.
C25_CreateExistingIsIdempotent ==
  [][(/\ last' # last
      /\ last'.fn \in {"create_bucket", "create_bucket_if_needed"}
      /\ ~BucketAbsent(last'.path))
     => /\ last'.raised = NoError
        /\ last'.value = Bool(TRUE)
        /\ UNCHANGED <<fsDirs, fsFiles, gcsBuckets, gcsBlobs>>]_vars

(***************************************************************************)
(* Capabilities on the local backend: paths are signed for upload,         *)
(* download and delete with one expiry or another, and what was signed     *)
(* last is uploaded to, downloaded and deleted.                            *)
(***************************************************************************)
\* upload_signed_url(data, url) with the URL signed last
UploadSignedUrl(data) ==
  /\ signed # NoUrl
  /\ \E r \in {call("upload_signed_url", Backend, Store,
                    [NoArgs EXCEPT !.data = data, !.url = signed], Plan(0, "none"))} :
       /\ Leave(r)
       /\ last' = Called("upload_signed_url", signed.path, r, 0, "none", TRUE)
       /\ Record(r, signed.path, Present(data.golden))
       /\ UNCHANGED <<env, signed>>

\* download_signed_url(url) with the URL signed last
DownloadSignedUrl ==
  /\ signed # NoUrl
  /\ \E r \in {call("download_signed_url", Backend, Store,
                    [NoArgs EXCEPT !.url = signed], Plan(0, "none"))} :
       /\ Leave(r)
       /\ last' = Called("download_signed_url", signed.path, r, 0, "none", TRUE)
       /\ UNCHANGED <<env, signed, written>>

\* delete_signed_url(url) with the URL signed last
DeleteSignedUrl ==
  /\ signed # NoUrl
  /\ \E r \in {call("delete_signed_url", Backend, Store,
                    [NoArgs EXCEPT !.url = signed], Plan(0, "none"))} :
       /\ Leave(r)
       /\ last' = Called("delete_signed_url", signed.path, r, 0, "none", TRUE)
       /\ written' = IF r.raised = NoError
                       THEN [written EXCEPT ![Backend][signed.path] = Absent]
                       ELSE written
       /\ UNCHANGED <<env, signed>>

\* the expiry values asked for
Expiries == {0, 5, SIGNED_URL_EXPIRATION_MINUTES}

NextSigned ==
  \/ \E fn \in {"get_signed_upload_url", "get_signed_download_url", "sign_delete_url"},
        p \in {PathF, PathDF}, minutes \in Expiries :
       Sign(fn, p, minutes, 0, "none")
  \/ \E d \in DataInputs : UploadSignedUrl(d)
  \/ DownloadSignedUrl
  \/ DeleteSignedUrl

SpecSigned == InitFs /\ [][NextSigned]_vars

\* C26: on the local backend signing a path for download, upload or delete
\* gives the path itself whatever the expiry, and the capability acts on the
\* object of that path: every path holds the bytes last uploaded to its
\* capability and not deleted since, and a download returns them.
C26_LocalCapabilityIsThePath ==
  /\ last.fn \in {"get_signed_upload_url", "get_signed_download_url", "sign_delete_url"}
       => /\ last.raised = NoError
          /\ last.value.url.path = last.path
          /\ \A other \in Expiries :
               last.value.url = fs_sign_url(last.path, other)
  /\ \A p \in {PathF, PathDF} : Observed("fs", Store, p) = written["fs"][p]
  /\ last.fn = "download_signed_url"
       => IF written["fs"][last.path].present
            THEN /\ last.raised = NoError
                 /\ last.value = Bytes(written["fs"][last.path].bytes)
            ELSE last.value = None

\* the text uploaded to the capability of gs://a/d/f came back from it
C26_Witness ==
  /\ last.fn = "download_signed_url"
  /\ last.path = PathDF
  /\ last.value = Bytes(<<195, 169>>)
  /\ written["fs"][PathF] = Absent

(***************************************************************************)
(* Capabilities on the remote backend and their expiry.                    *)
(***************************************************************************)
\* a signing that leaves the delete URL out whatever the flag
_sign_urls_without_delete(provider, st, corpus_element_url, include_delete_urls, minutes) ==
  LET download_url == call("get_signed_download_url", provider, st,
                           [NoArgs EXCEPT !.path = corpus_element_url,
                                          !.minutes = minutes], Plan(0, "none"))
  IN IF download_url.raised # NoError THEN download_url
     ELSE [download_url EXCEPT
             !.value = [None EXCEPT !.kind = "tuple",
                                    !.items = <<download_url.value.url, NoUrl>>]]

\* _sign_urls_for_existing_file((url, include_delete_urls), minutes): the
\* pair (download_url, delete_url), '' being NoUrl
_sign_urls_for_existing_file(provider, st, corpus_element_url, include_delete_urls, minutes) ==
  LET Args == [NoArgs EXCEPT !.path = corpus_element_url, !.minutes = minutes]
      Pair(download_url, delete_url) ==
        IF download_url.raised # NoError THEN download_url
        ELSE IF delete_url.raised # NoError THEN delete_url
        ELSE [download_url EXCEPT
                !.value = [None EXCEPT !.kind = "tuple",
                                       !.items = <<download_url.value.url,
                                                   delete_url.value.url>>]]
      Empty(o) == [o EXCEPT !.value = Url(NoUrl)]
  IN Pair(call("get_signed_download_url", provider, st, Args, Plan(0, "none")),
          IF include_delete_urls
            THEN call("sign_delete_url", provider, st, Args, Plan(0, "none"))
            ELSE Empty(call("get_signed_download_url", provider, st, Args,
                            Plan(0, "none"))))

\* a call of _sign_urls_for_existing_file, as sign_urls_for_existing_files
\* makes it for each file
SignUrlsForExistingFile(path, include_delete_urls, minutes) ==
  \E r \in {_sign_urls_for_existing_file(Backend, Store, path, include_delete_urls,
                                         minutes)} :
    /\ Leave(r)
    /\ last' = [Called("_sign_urls_for_existing_file", path, r, 0, "none", TRUE)
                  EXCEPT !.minutes = minutes]
    /\ UNCHANGED <<env, signed, written>>

InitGcs == Init /\ env = ""

NextExpiry ==
  \/ \E fn \in {"get_signed_upload_url", "get_signed_download_url", "sign_delete_url"},
        p \in {PathF, PathDF}, minutes \in Expiries :
       Sign(fn, p, minutes, 0, "none")
  \/ \E p \in {PathF, PathDF}, include_delete_urls \in BOOLEAN, minutes \in Expiries :
       SignUrlsForExistingFile(p, include_delete_urls, minutes)
  \/ \E p \in {PathF, PathDF} : Do("write_data", p, 0, "none")

SpecExpiry == InitGcs /\ [][NextExpiry]_vars

\* C27: on the remote backend the URLs signed for download, upload and
\* delete expire after the minutes the caller gave, and so do both URLs
\* _sign_urls_for_existing_file returns.
C27_ExpiryAsGiven ==
  /\ (/\ last.fn \in {"get_signed_upload_url", "get_signed_download_url",
                      "sign_delete_url"}
      /\ last.raised = NoError)
       => last.value.url.minutes = last.minutes
  /\ (last.fn = "_sign_urls_for_existing_file" /\ last.raised = NoError)
       => \A i \in DOMAIN last.value.items :
            last.value.items[i] # NoUrl => last.value.items[i].minutes = last.minutes

(***************************************************************************)
(* Upload URLs for arbitrary names.                                        *)
(***************************************************************************)
\* the URL-safe base64 alphabet
URLSAFE_ALPHABET ==
  <<
    "A", "B", "C", "D", "E", "F", "G", "H", "I", "J", "K", "L", "M", "N",
     "O", "P", "Q", "R", "S", "T", "U", "V", "W", "X", "Y", "Z", "a", "b",
     "c", "d", "e", "f", "g", "h", "i", "j", "k", "l", "m", "n", "o", "p",
     "q", "r", "s", "t", "u", "v", "w", "x", "y", "z", "0", "1", "2", "3",
     "4", "5", "6", "7", "8", "9", "-", "_"
  >>

\* base64.urlsafe_b64encode: three bytes give four characters, and the one
\* or two bytes left at the end give two or three and '=' for the rest
RECURSIVE urlsafe_b64encode(_)
urlsafe_b64encode(bytes) ==
  LET Char(v) == URLSAFE_ALPHABET[v + 1]
  IN IF bytes = <<>> THEN <<>>
     ELSE IF Len(bytes) = 1
       THEN <<Char(bytes[1] \div 4), Char((bytes[1] % 4) * 16), "=", "=">>
     ELSE IF Len(bytes) = 2
       THEN <<Char(bytes[1] \div 4),
              Char((bytes[1] % 4) * 16 + bytes[2] \div 16),
              Char((bytes[2] % 16) * 4), "=">>
     ELSE <<Char(bytes[1] \div 4),
            Char((bytes[1] % 4) * 16 + bytes[2] \div 16),
            Char((bytes[2] % 16) * 4 + bytes[3] \div 64),
            Char(bytes[3] % 64)>>
          \o urlsafe_b64encode(SubSeq(bytes, 4, Len(bytes)))

\* str.rstrip(chars) for one character
RECURSIVE rstrip(_, _)
rstrip(s, char) ==
  IF s # <<>> /\ s[Len(s)] = char THEN rstrip(SubSeq(s, 1, Len(s) - 1), char) ELSE s

\* str(idx) of an index below ten
str(idx) == <<URLSAFE_ALPHABET[53 + idx]>>

\* names that leave the index out
arbitrary_upload_paths_without_idx(remote_directory, unique_id, num_uploads) ==
  [idx \in 1..num_uploads |->
     (IF remote_directory # <<>> /\ remote_directory[Len(remote_directory)] = "/"
        THEN remote_directory ELSE remote_directory \o <<"/">>)
     \o rstrip(urlsafe_b64encode(unique_id), "=")]

\* the paths get_arbitrary_signed_upload_urls signs: base_path-idx for idx
\* in range(num_uploads), none when num_uploads is 0
arbitrary_upload_paths(remote_directory, unique_id, num_uploads) ==
  [idx \in 1..num_uploads |->
     (IF remote_directory # <<>> /\ remote_directory[Len(remote_directory)] = "/"
        THEN remote_directory ELSE remote_directory \o <<"/">>)
     \o rstrip(urlsafe_b64encode(unique_id), "=") \o <<"-">> \o str(idx - 1)]

\* the most uploads asked for in one call
MaxUploads == 3

\* the bytes of a unique id that are followed (uuid4 has 16)
UuidBytes == 1

\* the unique ids uuid.uuid4() may give, as their bytes
Uuids == [1..UuidBytes -> {0, 1, 251, 255}]

\* the directory, with and without its slash
DirD == <<"g", "s", ":", "/", "/", "a", "/", "d">>

RemoteDirectories == {DirD, DirD \o <<"/">>}

\* get_arbitrary_signed_upload_urls(remote_directory, num_uploads), its
\* unique id drawn, all its URLs taken: parallel_map yields them in the
\* order the calls complete
GetArbitrarySignedUploadUrls(remote_directory, num_uploads, unique_id, order) ==
  \E urls \in {arbitrary_upload_paths(remote_directory, unique_id, num_uploads)} :
    \E r \in {[i \in DOMAIN urls |->
                 call("get_signed_upload_url", Backend, Store,
                      [NoArgs EXCEPT !.path = urls[order[i]],
                                     !.minutes = SIGNED_URL_EXPIRATION_MINUTES],
                      Plan(0, "none"))]} :
      /\ last' = [NoCall EXCEPT
                    !.fn = "get_arbitrary_signed_upload_urls",
                    !.path = remote_directory,
                    !.provider = Backend,
                    !.reached = TRUE,
                    !.calls = num_uploads,
                    !.unique_id = unique_id,
                    !.num_uploads = num_uploads,
                    !.value = [None EXCEPT !.kind = "tuple",
                                           !.items = [i \in DOMAIN r |-> r[i].value.url]]]
      /\ UNCHANGED <<env, fsDirs, fsFiles, gcsBuckets, gcsBlobs, signed, written,
                     pool, local, probe, paging, iam, info, web>>

NextNames ==
  \E remote_directory \in RemoteDirectories, num_uploads \in 0..MaxUploads,
     unique_id \in Uuids :
    \E order \in {f \in [1..num_uploads -> 1..num_uploads] :
                    \A i, j \in 1..num_uploads : i # j => f[i] # f[j]} :
      GetArbitrarySignedUploadUrls(remote_directory, num_uploads, unique_id, order)

SpecNames == Init /\ [][NextNames]_vars

\* the object names of the URLs a call gave
NamesOf(c) == {c.value.items[i].path : i \in DOMAIN c.value.items}

\* the path names an object directly in the directory
DirectlyUnder(path, directory) ==
  /\ startswith(path, directory \o <<"/">>)
  /\ Len(path) > Len(directory) + 1
  /\ ~HasSlash(SubSeq(path, Len(directory) + 2, Len(path)))

\* C28: get_arbitrary_signed_upload_urls(dir, n) gives n upload URLs whose
\* object names are pairwise distinct and directly under dir, whether or not
\* dir ends with a slash, and two calls with different unique ids have no
\* name in common.
C28_ArbitraryNamesDistinct ==
  [][last'.fn = "get_arbitrary_signed_upload_urls"
     => /\ Len(last'.value.items) = last'.num_uploads
        /\ Cardinality(NamesOf(last')) = last'.num_uploads
        /\ \A i \in DOMAIN last'.value.items :
             /\ DirectlyUnder(last'.value.items[i].path, DirD)
             /\ last'.value.items[i].method \in {"PUT", "raw"}
        /\ (/\ last.fn = "get_arbitrary_signed_upload_urls"
            /\ last.unique_id # last'.unique_id)
             => NamesOf(last) \cap NamesOf(last') = {}]_vars

\* the most URLs were given for the directory named with its slash, under a
\* unique id whose encoding starts with "-"
C28_Witness ==
  /\ last.fn = "get_arbitrary_signed_upload_urls"
  /\ last.path = DirD \o <<"/">>
  /\ last.num_uploads = MaxUploads
  /\ last.unique_id = [i \in 1..UuidBytes |-> 251]
  /\ \E i \in DOMAIN last.value.items :
       last.value.items[i].path = DirD \o <<"/">>
                                    \o rstrip(urlsafe_b64encode(last.unique_id), "=")
                                    \o <<"-", "2">>

(***************************************************************************)
(* The pools of the batch functions and of parallel_map, from the with     *)
(* block entered to the call back at its caller.                           *)
(***************************************************************************)
NextRelease ==
  \/ \E items \in Batches({[url |-> UrlFor("get_signed_upload_url", PathF), file |-> u] :
                             u \in {"u1", "nofile"}}) :
       Submit("upload_signed_urls", items, UploadFiles)
  \/ \E items \in Batches({[url |-> UrlFor("get_signed_download_url", p), file |-> 0] :
                             p \in {PathF, PathN}}) :
       Submit("download_signed_urls", items, NoFiles)
  \/ \E items \in Batches({[url |-> UrlFor("sign_delete_url", p), file |-> 0] :
                             p \in {PathF, PathN}}) :
       Submit("delete_signed_urls", items, NoFiles)
  \/ /\ pool.op # "parallel_map"
     /\ \E i \in 1..MaxBatch, kf \in ItemPlans : RunItem(i, kf[1], kf[2])
  \/ pool.op # "parallel_map" /\ Return
  \/ \E argument_list \in Batches({PathF, PathN}) : parallel_map("get_signed_upload_url", argument_list)
  \/ \E i \in 1..MaxBatch : Start(i)
  \/ \E i \in 1..MaxBatch, kf \in ItemPlans : Finish(i, kf[1], kf[2])
  \/ \E i \in 1..MaxBatch : Yield(i)
  \/ Timeout
  \/ \E wait \in BOOLEAN : Release(wait)

SpecRelease == Init /\ [][NextRelease]_vars

\* the call that opened the pool has returned or raised
Left == pool.op # "none" /\ pool.state \in {"returned", "raised"}

\* C29: once upload_signed_urls, download_signed_urls, delete_signed_urls
\* or parallel_map has returned or raised, the pool it opened is released:
\* no call of the batch is running in a worker or waiting for one.
C29_PoolReleasedOnEveryExit ==
  Left =>
    /\ \A i \in DOMAIN pool.calls : pool.calls[i] \notin {"running", "queued"}
    /\ pool.op # "parallel_map" => \A i \in DOMAIN pool.items : pool.done[i].ran

\* parallel_map raised what a yielded result raised, and the release
\* cancelled a call of the batch
C29_Witness ==
  /\ pool.op = "parallel_map"
  /\ pool.state = "raised"
  /\ pool.raised # NoError
  /\ pool.raised # Raise("TimeoutError", 0)
  /\ \E i \in DOMAIN pool.calls : pool.calls[i] = "cancelled"

(***************************************************************************)
(* Backend failures in the functions that catch them: exists,              *)
(* GcsBlobInfo.from_key, get_bucket_iam_policy and set_bucket_iam_policy,  *)
(* next to functions that do not.                                          *)
(***************************************************************************)
\* blobs_bucket(): the configured name of the blobs bucket
blobs_bucket == BucketA

\* GcsBlobInfo(bucket, object_path) without filename and size: the object
\* is looked up with get, and 'metadata' in gcs_object raises TypeError when
\* get returned None
GcsBlobInfo(provider, st, bucket, object_path, faults) ==
  LET Made(g) ==
        IF g.raised # NoError THEN g
        ELSE IF g.value = None THEN [g EXCEPT !.raised = Raise("TypeError", 0)]
        ELSE [g EXCEPT !.value = [g.value EXCEPT !.kind = "blob_info"]]
  IN Made(call("get", provider, st,
               [NoArgs EXCEPT !.path = get_cloud_storage_file_path(bucket, object_path)],
               faults))

\* GcsBlobInfo.from_key: every Exception of the constructor is logged and
\* None returned
from_key(provider, st, key, faults) ==
  LET Except(b) ==
        IF b.raised # NoError /\ isinstance(b.raised, "Exception")
          THEN [b EXCEPT !.raised = NoError, !.value = None]
          ELSE b
  IN Except(GcsBlobInfo(provider, st, blobs_bucket, key, faults))

\* a call of GcsBlobInfo.from_key(key)
FromKey(key, k, f) ==
  \E r \in {from_key(Backend, Store, key, Plan(k, f))} :
    /\ Leave(r)
    /\ last' = Called("from_key", get_cloud_storage_file_path(blobs_bucket, key),
                      r, k, f, TRUE)
    /\ UNCHANGED <<env, signed, written>>

\* the keys of an object that is there and of one that is not
Keys == {<<"f">>, <<"n">>}

NextErrors ==
  \/ \E fn \in {"exists", "get", "read_data"}, p \in {PathF, PathN}, kf \in FaultPlans :
       Do(fn, p, kf[1], kf[2])
  \/ \E fn \in {"write_data", "delete"}, kf \in FaultPlans : Do(fn, PathF, kf[1], kf[2])
  \/ \E key \in Keys, kf \in FaultPlans : FromKey(key, kf[1], kf[2])
  \/ \E fault \in Faults : GetBucketIamPolicy(1, fault)
  \/ \E role \in Roles : GetOrCreateBinding(1, role)
  \/ \E checked \in BOOLEAN, fault \in Faults : SetBucketIamPolicy(1, checked, fault)

SpecErrors == InitGcs /\ [][NextErrors]_vars

\* C30: outside the batch functions a backend failure is never turned into
\* a normal return: a call of exists, GcsBlobInfo.from_key, get, read_data,
\* write_data or delete whose every request failed raises, and so does a
\* call of get_bucket_iam_policy or set_bucket_iam_policy whose request
\* failed.
C30_BackendErrorsReachCaller ==
  /\ (last.fn # "none" /\ last.fault # "none" /\ FaultsThroughout)
       => last.raised # NoError
  /\ \A m \in Mutators :
       (/\ iam.mutator[m].fn \in {"get_bucket_iam_policy", "set_bucket_iam_policy"}
        /\ iam.mutator[m].fault # "none")
         => iam.mutator[m].raised # NoError

(***************************************************************************)
(* download_signed_urls with the asynchronous-HTTP flag on and off.        *)
(* pool.async is what use_async_http() answered; with it the items go to   *)
(* fast_http.download_urls instead of the pool.                            *)
(***************************************************************************)
\* an asynchronous download that lets the failure of an item go
fast_http_item_unguarded(provider, st, files, item, faults) ==
  download_item_unguarded(provider, st, files, item, faults)

\* fast_http.download_urls on one <<url, filepath>>: the object is fetched
\* into the file, and the answer is whether that went through
fast_http_download_item(provider, st, files, item, faults) ==
  LET Saved(r, w) ==
        ItemRun(r.st, w.files, w.raised = NoError, w.raised, FALSE, NoError)
      Got(r) == Saved(r, download_signed_url_to_file(r, files, item.file))
  IN Got(call(IF provider = "gcs" THEN "_download_url" ELSE "download_signed_url",
              provider, st, [NoArgs EXCEPT !.url = item.url], faults))

\* download_signed_urls(signed_urls, directory) up to the choice of the
\* path: use_async_http() is the configured flag
DownloadSignedUrls(items, use_async_http) ==
  /\ pool.op = "none"
  /\ pool' = [NoPool EXCEPT
                !.op = "download_signed_urls",
                !.state = IF items = <<>> THEN "returned" ELSE "open",
                !.items = [i \in DOMAIN items |-> [items[i] EXCEPT !.file = i]],
                !.done = [i \in DOMAIN items |->
                            [ran |-> FALSE, returned |-> FALSE, caught |-> NoError,
                             escaped |-> NoError]],
                !.files = NoFiles,
                !.async = use_async_http]
  /\ UNCHANGED <<env, fsDirs, fsFiles, gcsBuckets, gcsBlobs, signed, last, written,
                 local, probe, paging, iam, info, web>>

\* fast_http.download_urls fetches item i
FastHttpItem(i, k, f) ==
  /\ pool.state = "open"
  /\ pool.async
  /\ i \in DOMAIN pool.items
  /\ ~pool.done[i].ran
  /\ \E x \in {fast_http_download_item(Backend, Store, pool.files, pool.items[i],
                                        Plan(k, f))} :
       /\ fsDirs' = x.st.dirs
       /\ fsFiles' = x.st.files
       /\ gcsBuckets' = x.st.buckets
       /\ gcsBlobs' = x.st.blobs
       /\ pool' = [pool EXCEPT
                     !.files = x.files,
                     !.done[i] = [ran |-> TRUE, returned |-> x.returned,
                                  caught |-> x.caught, escaped |-> x.escaped],
                     !.logged = IF x.logged THEN @ \cup {i} ELSE @]
  /\ UNCHANGED <<env, signed, last, written, local, probe, paging, iam, info, web>>

NextAsync ==
  \/ pool.op = "none" /\ Do("write_data", PathF, 0, "none")
  \/ \E items \in Batches({[url |-> UrlFor("get_signed_download_url", p), file |-> 0] :
                             p \in {PathF, PathN}}), use_async_http \in BOOLEAN :
       DownloadSignedUrls(items, use_async_http)
  \/ /\ ~pool.async
     /\ \E i \in 1..MaxBatch, kf \in ItemPlans : RunItem(i, kf[1], kf[2])
  \/ \E i \in 1..MaxBatch, kf \in ItemPlans : FastHttpItem(i, kf[1], kf[2])
  \/ Return

SpecAsync == Init /\ [][NextAsync]_vars

RECURSIVE SuccessfulPairs(_, _)
\* the <<url, filepath>> pairs of the first n items whose download went
\* through, in the order of the items
SuccessfulPairs(items, n) ==
  IF n = 0 THEN <<>>
  ELSE SuccessfulPairs(items, n - 1)
         \o (IF n \in Succeeded THEN <<items[n]>> ELSE <<>>)

MaxAsks == 2

\* bool(value) of Python: None, 0 and the empty string are false
truthy(value) ==
  CASE value.kind = "None" -> FALSE
    [] value.kind = "int" -> value.int # 0
    [] OTHER -> value.str # <<>>

\* GcsBlobInfo.key
key(self) ==
  IF truthy(self.legacy_key) THEN self.legacy_key
  ELSE KeyValue("str", 0, self.object_path)

\* GcsBlobInfo(bucket, object_path, filename, size, legacy_key) with
\* filename and size given: the attributes are set, no object is looked up
NewGcsBlobInfo(bucket, object_path, filename, size, legacy_key) ==
  /\ info' = [NoInfo EXCEPT !.made = TRUE, !.bucket = bucket,
                            !.object_path = object_path, !.filename = filename,
                            !.size = size, !.legacy_key = legacy_key]
  /\ UNCHANGED <<env, fsDirs, fsFiles, gcsBuckets, gcsBlobs, signed, last, written,
                 pool, local, probe, paging, iam, web>>

\* a call of key() on the handle
Key ==
  /\ info.made
  /\ info.asked < MaxAsks
  /\ info' = [info EXCEPT !.asked = @ + 1, !.answer = key(info)]
  /\ UNCHANGED <<env, fsDirs, fsFiles, gcsBuckets, gcsBlobs, signed, last, written,
                 pool, local, probe, paging, iam, web>>

\* the legacy keys a handle is constructed with: none, and integers and
\* strings, the empty ones included
LegacyKeys ==
  {KeyValue("None", 0, <<>>), KeyValue("int", 0, <<>>), KeyValue("int", 7, <<>>),
   KeyValue("str", 0, <<>>), KeyValue("str", 0, <<"k">>)}

NextKey ==
  \/ \E object_path \in {<<"f">>, <<"d", "/", "f">>}, filename \in {<<"f">>, <<"g">>},
        size \in {0, 2}, legacy_key \in LegacyKeys :
       NewGcsBlobInfo(BucketA, object_path, filename, size, legacy_key)
  \/ Key

SpecKey == Init /\ [][NextKey]_vars

\* C32: key() answers the legacy key whenever one was supplied at
\* construction, whatever its value, and the object path only when none was
\* supplied; every call on the handle gives the same answer.
C32_KeyIsLegacyKeyWhenSupplied ==
  /\ [](info.asked > 0 =>
          info.answer = IF info.legacy_key.kind # "None" THEN info.legacy_key
                        ELSE KeyValue("str", 0, info.object_path))
  /\ [][(info.asked > 0 /\ info'.asked > info.asked) => info'.answer = info.answer]_vars

(***************************************************************************)
(* The web application: require_csrf_token, check_testcase_access and the  *)
(* create-issue handler behind them.                                       *)
(***************************************************************************)
\* the most requests served, clock ticks and CSRF tokens generated in a run
MaxRequests == 2

MaxNow == 2

MaxTokens == 2

Response(status, message) == [status |-> status, message |-> message]

\* helpers.AccessDeniedError(message), answered with status 403
AccessDeniedError(message) == Response(403, message)

\* helpers.EarlyExitError(message, status)
EarlyExitError(message, status) == Response(status, message)

\* a stored data_types.CSRFToken; NoToken is the None of a query without a
\* match
CSRFToken(value, user_email, expiration_time) == [value |-> value, user_email |-> user_email, expiration_time |-> expiration_time]

NoToken == CSRFToken(0, 0, 0)

\* data_types.CSRFToken.query(CSRFToken.value == token_value,
\*                            CSRFToken.user_email == user.email)
query(w, token_value) ==
  {t \in w.tokens : t.value = token_value /\ t.user_email = w.user}

\* what query.get() may answer: a matching token, None without one
query_get(w, token_value) ==
  IF query(w, token_value) = {} THEN {NoToken} ELSE query(w, token_value)

\* events.IssueFilingEvent(testcase, issue_tracker_project, issue_id,
\*                         issue_created)
IssueFilingEvent(testcase, issue_id, issue_created) == [testcase |-> testcase, issue_tracker_project |-> "oss-fuzz", issue_id |-> issue_id, issue_created |-> issue_created]

\* a handler that reports only the issues it filed
create_issue_emitting_on_success(w, request, testcase) ==
  IF ~request.issue_tracker
    THEN [w EXCEPT !.response = EarlyExitError("No issue tracker.", 404)]
  ELSE IF request.severity.kind # "int"
    THEN [w EXCEPT !.response = EarlyExitError("Invalid severity.", 400)]
  ELSE IF request.issue_id.kind = "None"
    THEN [w EXCEPT !.filed = @ + 1,
                   !.response = EarlyExitError("Unable to create new issue.", 500)]
  ELSE [w EXCEPT !.filed = @ + 1,
                 !.events = Append(@, IssueFilingEvent(testcase,
                              KeyValue("str", 0, str(request.issue_id.int)), TRUE)),
                 !.response = Response(200, "ok")]

\* the create-issue handler once the testcase is loaded: 404 without an
\* issue tracker, 400 for a severity that is no integer, then
\* issue_filer.file_issue, one IssueFilingEvent, and 500 when no issue id
\* came back
create_issue(w, request, testcase) ==
  IF ~request.issue_tracker
    THEN [w EXCEPT !.response = EarlyExitError("No issue tracker.", 404)]
  ELSE IF request.severity.kind # "int"
    THEN [w EXCEPT !.response = EarlyExitError("Invalid severity.", 400)]
  ELSE IF request.issue_id.kind = "None"
    THEN [w EXCEPT !.filed = @ + 1,
                   !.events = Append(@, IssueFilingEvent(testcase,
                                KeyValue("None", 0, <<>>), FALSE)),
                   !.response = EarlyExitError("Unable to create new issue.", 500)]
  ELSE [w EXCEPT !.filed = @ + 1,
                 !.events = Append(@, IssueFilingEvent(testcase,
                              KeyValue("str", 0, str(request.issue_id.int)), TRUE)),
                 !.response = Response(200, "ok")]

\* check_testcase_access(func): the wrapper, with the create-issue handler
\* as func. helpers.cast answers 400 for a
\* testcaseId that is no integer, access.check_access_and_get_testcase 404
\* for an id without a testcase
check_testcase_access(w, request) ==
  IF request.testcaseId.kind # "int"
    THEN [w EXCEPT !.response =
            EarlyExitError("The param 'testcaseId' is not a number.", 400)]
  ELSE IF request.testcaseId.int \notin w.testcases
    THEN [w EXCEPT !.response = EarlyExitError("Testcase not found.", 404)]
  ELSE create_issue(w, request, request.testcaseId.int)

\* what require_csrf_token wraps in the create-issue handler; ran records
\* that the wrapped function was entered
post(w, request) ==
  check_testcase_access([w EXCEPT !.ran = TRUE], request)

\* a check that leaves an expired token in the store
require_csrf_token_keeping_expired(w, request, token) ==
  IF w.user = 0 THEN [w EXCEPT !.response = AccessDeniedError("Not logged in.")]
  ELSE IF token = NoToken
    THEN [w EXCEPT !.response = AccessDeniedError("Invalid CSRF token.")]
  ELSE IF token.expiration_time < w.now
    THEN [w EXCEPT !.response = AccessDeniedError("Expired CSRF token.")]
  ELSE post(w, request)

\* require_csrf_token(func): the wrapper, with the post of the create-issue
\* handler as func; token is what query.get() answered
require_csrf_token(w, request, token) ==
  IF w.user = 0 THEN [w EXCEPT !.response = AccessDeniedError("Not logged in.")]
  ELSE IF token = NoToken
    THEN [w EXCEPT !.response = AccessDeniedError("Invalid CSRF token.")]
  ELSE IF token.expiration_time < w.now
    THEN [w EXCEPT !.tokens = @ \ {token}, !.deleted = @ \cup {token},
                   !.response = AccessDeniedError("Expired CSRF token.")]
  ELSE post(w, request)

WebUnchanged ==
  UNCHANGED <<env, fsDirs, fsFiles, gcsBuckets, gcsBlobs, signed, last, written,
              pool, local, probe, paging, iam, info>>

\* one POST to the create-issue handler, served to its response
Post(request) ==
  /\ web.requests < MaxRequests
  /\ \E token \in query_get(web, request.csrf_token) :
       web' = require_csrf_token(
                [web EXCEPT !.requests = @ + 1, !.request = request, !.ran = FALSE,
                            !.response = NoResponse],
                request, token)
  /\ WebUnchanged

\* auth.get_current_user() answers user from now on (0: nobody)
Login(user) ==
  /\ user # web.user
  /\ web' = [web EXCEPT !.user = user]
  /\ WebUnchanged

\* form.generate_csrf_token: a token with a value not given out before is
\* stored for the user, valid for valid ticks
GenerateCsrfToken(valid) ==
  /\ web.user # 0
  /\ web.fresh <= MaxTokens
  /\ web' = [web EXCEPT !.tokens = @ \cup {CSRFToken(web.fresh, web.user, web.now + valid)},
                        !.fresh = @ + 1]
  /\ WebUnchanged

\* datetime.datetime.utcnow() moves on
Tick ==
  /\ web.now < MaxNow
  /\ web' = [web EXCEPT !.now = @ + 1]
  /\ WebUnchanged

Users == {1, 2}

\* requests that differ in the token they carry
CsrfRequests ==
  {Request(csrf_token, KeyValue("int", 1, <<>>), KeyValue("int", 3, <<>>), TRUE, KeyValue("int", 7, <<>>)) :
     csrf_token \in 0..MaxTokens}

NextCsrf ==
  \/ \E user \in {0} \cup Users : Login(user)
  \/ \E valid \in {0, 1} : GenerateCsrfToken(valid)
  \/ Tick
  \/ \E request \in CsrfRequests : Post(request)

SpecCsrf == Init /\ [][NextCsrf]_vars

\* requests of a user with or without their token: every testcaseId,
\* severity, issue tracker lookup and file_issue answer
IssueRequests ==
  {Request(csrf_token, testcaseId, severity, issue_tracker, issue_id) :
     csrf_token \in {0, 1},
     testcaseId \in {KeyValue("int", 1, <<>>), KeyValue("int", 2, <<>>), KeyValue("str", 0, <<"a">>)},
     severity \in {KeyValue("int", 3, <<>>), KeyValue("str", 0, <<"a">>)},
     issue_tracker \in BOOLEAN,
     issue_id \in {KeyValue("int", 7, <<>>), KeyValue("None", 0, <<>>)}}

NextIssue ==
  \/ web.user = 0 /\ Login(1)
  \/ web.tokens = {} /\ GenerateCsrfToken(1)
  \/ \E request \in IssueRequests : Post(request)

SpecIssue == Init /\ [][NextIssue]_vars

\* the step is a request served
Served == web'.requests > web.requests

\* C33: a request that reaches the issue-filing call adds exactly one
\* issue-filing event, issue_created true with the new id when an id came
\* back (status 200), issue_created false without id and status 500 when
\* none did; a request rejected before it (no issue tracker: 404, unknown
\* testcase: 404, severity no integer: 400) adds no event.
C33_OneIssueFilingEventPerFiling ==
  [][Served =>
       LET request == web'.request IN
       IF web'.filed > web.filed
         THEN /\ web'.filed = web.filed + 1
              /\ Len(web'.events) = Len(web.events) + 1
              /\ SubSeq(web'.events, 1, Len(web.events)) = web.events
              /\ web'.events[Len(web'.events)] =
                   IF request.issue_id.kind = "None"
                     THEN IssueFilingEvent(request.testcaseId.int,
                                           KeyValue("None", 0, <<>>), FALSE)
                     ELSE IssueFilingEvent(request.testcaseId.int,
                                           KeyValue("str", 0, <<"7">>), TRUE)
              /\ web'.response.status = IF request.issue_id.kind = "None" THEN 500 ELSE 200
         ELSE /\ web'.events = web.events
              /\ web'.response.status \in {400, 403, 404}
              /\ (web'.ran /\ request.testcaseId = KeyValue("int", 1, <<>>)
                    /\ ~request.issue_tracker) => web'.response.status = 404
              /\ (web'.ran /\ request.testcaseId = KeyValue("int", 2, <<>>))
                    => web'.response.status = 404
              /\ (web'.ran /\ request.testcaseId = KeyValue("int", 1, <<>>)
                    /\ request.issue_tracker /\ request.severity.kind # "int")
                    => web'.response.status = 400]_vars

\* an issue filed and a filing that failed, each with its event
C33_Witness ==
  /\ web.filed = 2
  /\ web.events = <<IssueFilingEvent(1, KeyValue("str", 0, <<"7">>), TRUE),
                    IssueFilingEvent(1, KeyValue("None", 0, <<>>), FALSE)>>
  /\ web.response.status = 500

\* C37: the handler behind require_csrf_token runs only when a user is
\* logged in and a stored token has the presented value and that user's
\* email and is not expired; presenting an expired token takes it out of the
\* store, and every later request with that token is answered "Invalid CSRF
\* token." without the handler running.
C37_HandlerOnlyBehindValidToken ==
  [][Served =>
       LET value == web'.request.csrf_token
           matching == {t \in web.tokens : t.value = value /\ t.user_email = web.user}
       IN /\ web'.ran =>
               /\ web.user # 0
               /\ \E t \in matching : t.expiration_time >= web.now
          /\ (web.user # 0 /\ \E t \in matching : t.expiration_time < web.now) =>
               /\ \A t \in matching : t \notin web'.tokens /\ t \in web'.deleted
               /\ ~web'.ran
          /\ (web.user # 0 /\ \E t \in web.deleted : t.value = value) =>
               /\ web'.response = AccessDeniedError("Invalid CSRF token.")
               /\ ~web'.ran]_vars

\* the owner of a token that was deleted as expired presents it again and
\* is answered that the token is invalid
C37_Witness ==
  /\ web.user # 0
  /\ \E t \in web.deleted : t.value = web.request.csrf_token /\ t.user_email = web.user
  /\ web.response = AccessDeniedError("Invalid CSRF token.")
  /\ ~web.ran

(***************************************************************************)
(* The log of a batch of downloads.                                        *)
(***************************************************************************)
\* C34: in download_signed_urls every item that failed has a log entry:
\* it is missing from the result, never from the log.
C34_FailedDownloadsLogged ==
  pool.op = "download_signed_urls" =>
    \A i \in DOMAIN pool.items :
      (pool.done[i].ran /\ ~pool.done[i].returned) => i \in pool.logged

(***************************************************************************)
(* sign_urls_for_existing_files: _sign_urls_for_existing_file mapped over  *)
(* the URLs by parallel_map.                                               *)
(***************************************************************************)
\* args = ((url, include_delete_urls) for url in urls);
\* parallel_map(_sign_urls_for_existing_file, args)
sign_urls_for_existing_files(urls, include_delete_urls) ==
  parallel_map("_sign_urls_for_existing_file",
               [i \in DOMAIN urls |->
                  [url |-> urls[i], include_delete_urls |-> include_delete_urls]])

\* _sign_urls_for_existing_file(argument) returns or raises in its worker
FinishSign(i) ==
  /\ pool.op = "parallel_map"
  /\ pool.func = "_sign_urls_for_existing_file"
  /\ i \in DOMAIN pool.calls
  /\ pool.calls[i] = "running"
  /\ \E r \in {_sign_urls_for_existing_file(
                    Backend, Store, pool.items[i].url, pool.items[i].include_delete_urls,
                    SIGNED_URL_EXPIRATION_MINUTES)} :
       pool' = [pool EXCEPT
                  !.calls[i] = "finished",
                  !.done[i] = [ran |-> TRUE, returned |-> r.value, caught |-> NoError,
                               escaped |-> r.raised]]
  /\ UNCHANGED <<env, fsDirs, fsFiles, gcsBuckets, gcsBlobs, signed, last, written,
                 local, probe, paging, iam, info, web>>

NextSignFiles ==
  \/ \E urls \in Batches({PathF, PathDF, PathN}), include_delete_urls \in BOOLEAN :
       sign_urls_for_existing_files(urls, include_delete_urls)
  \/ \E i \in 1..MaxBatch : Start(i)
  \/ \E i \in 1..MaxBatch : FinishSign(i)
  \/ \E i \in 1..MaxBatch : Yield(i)
  \/ Timeout
  \/ \E wait \in BOOLEAN : Release(wait)

SpecSignFiles == Init /\ [][NextSignFiles]_vars

\* the pair yielded for the argument: a download URL of its file, and a
\* delete URL of its file or the empty string
PairOf(pair, argument) ==
  /\ pair.kind = "tuple"
  /\ Len(pair.items) = 2
  /\ pair.items[1] # NoUrl
  /\ pair.items[1].path = argument.url
  /\ pair.items[1].method \in {"GET", "raw"}
  /\ pair.items[2] = NoUrl <=> ~argument.include_delete_urls
  /\ argument.include_delete_urls =>
       (pair.items[2].path = argument.url /\ pair.items[2].method \in {"DELETE", "raw"})

\* C35: when every signing succeeded, sign_urls_for_existing_files has
\* yielded exactly one (download URL, delete URL) pair per input URL, in
\* whatever order the workers completed, and the delete URL of a pair is
\* the empty string exactly when the flag is false.
C35_OnePairPerUrl ==
  (pool.func = "_sign_urls_for_existing_file" /\ pool.state = "returned") =>
    /\ Len(pool.result) = Len(pool.items)
    /\ \E order \in [DOMAIN pool.items -> DOMAIN pool.items] :
         /\ \A i, j \in DOMAIN pool.items : i # j => order[i] # order[j]
         /\ \A i \in DOMAIN pool.items : PairOf(pool.result[i], pool.items[order[i]])
         /\ \A i \in DOMAIN pool.items : pool.calls[order[i]] = "yielded"

\* three files signed with delete URLs, the second call completing first
C35_Witness ==
  /\ pool.func = "_sign_urls_for_existing_file"
  /\ pool.state = "returned"
  /\ Len(pool.items) = 3
  /\ pool.items[1].url # pool.items[2].url
  /\ pool.items[1].include_delete_urls
  /\ PairOf(pool.result[1], pool.items[2])
  /\ PairOf(pool.result[2], pool.items[1])
  /\ pool.result[1].items[2] # NoUrl

(***************************************************************************)
(* add_single_bucket_iam and the caller's policy.                          *)
(***************************************************************************)
\* C36: add_single_bucket_iam ends by returning the modified policy or
\* None; it raises nothing, whatever the policy it is given and the role, a
\* policy without a binding of the role included.
C36_AddSingleNeverRaises ==
  \A m \in Mutators :
    (iam.mutator[m].fn = "add_single_bucket_iam" /\ ~iam.mutator[m].iam_policy.none)
      => iam.mutator[m].raised = NoError

\* one caller reads the policy, changes its copy and commits it, with the
\* service accepting the body or refusing it
NextFrame ==
  \/ GetBucketIamPolicy(1, "none")
  \/ \E role \in Roles : GetOrCreateBinding(1, role)
  \/ \E member \in Members : RemoveMember(1, "viewer", member)
  \/ \E fault \in {"none", "unavailable"} : SetBucketIamPolicy(1, FALSE, fault)
  \/ \E role \in Roles, member \in Members, fault \in {"none", "unavailable"} :
       AddSingleBucketIam(1, role, member, FALSE, fault)
  \/ TakeResult(1)

SpecFrame == Init /\ [][NextFrame]_vars

NextMeta ==
  \/ \E p \in {PathF, PathDF},
        m \in {NoMetadata, << <<"filename", "x">> >>, << <<"filename", "y">> >>} :
       write_data(FsData, p, m, 0, "none")
  \/ \E p \in {PathF, PathDF} : delete(p, 0, "none")
  \/ \E p \in {PathF, PathDF} : Look("get", p, 0, "none")

SpecMeta == InitFs /\ [][NextMeta]_vars

\* C38: on the local backend the metadata get returns of an object is the
\* metadata given with the last write of it, none when that write gave
\* none: the metadata of an earlier write does not outlive an overwrite.
C38_MetadataOfLastWrite ==
  (last.fn = "write_data" /\ last.raised = NoError) =>
    \E g \in {Body("get", "fs", Store, [NoArgs EXCEPT !.path = last.path], "none")} :
      /\ g.raised = NoError
      /\ g.value.kind = "object"
      /\ g.value.obj.metadata = last.metadata

(***************************************************************************)
(* The open file of an upload item across the attempts of the wrapper.     *)
(***************************************************************************)
\* C39: an item of upload_signed_urls that answered true has left the whole
\* of its file at the destination of its URL, also when the request that
\* succeeded followed one that had read the open file.
C39_TrueMeansWholeFile ==
  pool.op = "upload_signed_urls" =>
    \A i \in DOMAIN pool.items :
      (pool.done[i].ran /\ pool.done[i].returned) =>
        Observed(Backend, Store, pool.items[i].url.path) =
          Present(pool.files[pool.items[i].file])

====
